---- MODULE Spec2Model ----
(***************************************************************************)
(* StatEase: the data quality inspector (DataCleaner.check_quality), the   *)
(* cleaning executor (DataCleaner.apply_cleaning) and the dataset handling *)
(* of the analysis engines, over an object store of pandas DataFrames.     *)
(*                                                                         *)
(* A DataFrame is a record                                                 *)
(*   columns : sequence of column names (a name is a sequence of chars)    *)
(*   numeric : the set of column names whose dtype is a numpy number       *)
(*   index   : sequence of row labels                                      *)
(*   data    : sequence of rows, a row being a tuple of cells aligned      *)
(*             with columns                                                *)
(* A cell is a record [isnull, num, den, str]: NaN, the rational num/den   *)
(* (den > 0, lowest terms) or the string str.  Characters outside ASCII    *)
(* are written by their code point ("U+7F16").                             *)
(* In-place pandas calls (inplace=True) rewrite the object a reference     *)
(* points to; copy() allocates a new object.                               *)
(***************************************************************************)
EXTENDS Integers, Sequences, FiniteSets, TLC

VARIABLES heap, df, pc, call, ret, window

vars == <<heap, df, pc, call, ret, window>>

\* ---------------------------------------------------------------- bounds
MaxRows == 3

\* ----------------------------------------------------------------- cells
NaN == [isnull |-> TRUE, num |-> 0, den |-> 1, str |-> ""]

RECURSIVE Gcd(_, _)
Gcd(a, b) == IF b = 0 THEN a ELSE Gcd(b, a % b)

Abs(x) == IF x < 0 THEN -x ELSE x

\* the number n/d (d > 0) in lowest terms
Num(n, d) ==
    LET g == Gcd(Abs(n), d)
    IN  [isnull |-> FALSE, num |-> n \div g, den |-> d \div g, str |-> ""]

Str(s) == [isnull |-> FALSE, num |-> 0, den |-> 1, str |-> s]

Add(a, b) == Num(a.num * b.den + b.num * a.den, a.den * b.den)

Less(a, b) == a.num * b.den < b.num * a.den

\* the strings of the model in Python's sort order
StrOrder == <<"Unknown", "a", "b", "c">>

StrRank(s) == CHOOSE i \in 1..Len(StrOrder) : StrOrder[i] = s

\* ---------------------------------------------------------- column names
UpperCase == <<"A","B","C","D","E","F","G","H","I","J","K","L","M",
               "N","O","P","Q","R","S","T","U","V","W","X","Y","Z">>
LowerCase == <<"a","b","c","d","e","f","g","h","i","j","k","l","m",
               "n","o","p","q","r","s","t","u","v","w","x","y","z">>

\* the name as it is, case kept
lower_unchanged(s) == s

\* str.lower(), one character
LowerChar(c) ==
    IF \E i \in 1..Len(UpperCase) : UpperCase[i] = c
    THEN LowerCase[CHOOSE i \in 1..Len(UpperCase) : UpperCase[i] = c]
    ELSE c

\* str(col).lower()
lower(s) == [i \in 1..Len(s) |-> LowerChar(s[i])]

\* Python's `t in s` on strings
Contains(s, t) ==
    \E i \in 0..(Len(s) - Len(t)) : SubSeq(s, i + 1, i + Len(t)) = t

TokId      == <<"i", "d">>
TokBianhao == <<"U+7F16", "U+53F7">>
TokXuhao   == <<"U+5E8F", "U+53F7">>

\* ------------------------------------------------------------- DataFrame
len(d) == Len(d.data)

ColPos(d, col) == CHOOSE j \in 1..Len(d.columns) : d.columns[j] = col

\* df[col] as the sequence of its cells
Column(d, col) == [i \in 1..len(d) |-> d.data[i][ColPos(d, col)]]

\* the rows at the positions keep holds for, in order, with their labels
RECURSIVE KeepRows(_, _, _)
KeepRows(d, keep, i) ==
    IF i > len(d) THEN [d EXCEPT !.index = <<>>, !.data = <<>>]
    ELSE LET rest == KeepRows(d, keep, i + 1)
         IN  IF keep[i]
             THEN [rest EXCEPT !.index = <<d.index[i]>> \o rest.index,
                               !.data  = <<d.data[i]>> \o rest.data]
             ELSE rest

\* df[mask]
Mask(d, mask) == KeepRows(d, mask, 1)

\* every column taken for unique
is_unique_always(d, col) == TRUE

\* Series.is_unique: NaN counts as a value
is_unique(d, col) ==
    LET s == Column(d, col)
    IN  \A i, j \in 1..Len(s) : s[i] = s[j] => i = j

\* Series.isnull().sum()
NullCount(d, col) ==
    Cardinality({i \in 1..len(d) : Column(d, col)[i].isnull})

\* df.isnull().any(axis=1)
RowHasNull(d, i) == \E j \in 1..Len(d.columns) : d.data[i][j].isnull

\* the values of the subset columns in row i
SubsetKey(d, subset, i) ==
    [k \in 1..Len(subset) |-> d.data[i][ColPos(d, subset[k])]]

\* a row with a NaN in the subset columns duplicates no row
duplicated_nan_distinct(d, subset, keep) ==
    LET Same(i, j) ==
            /\ SubsetKey(d, subset, j) = SubsetKey(d, subset, i)
            /\ \A k \in 1..Len(subset) : ~SubsetKey(d, subset, i)[k].isnull
    IN  [i \in 1..len(d) |->
            IF keep = "first"
            THEN \E j \in 1..(i - 1) : Same(i, j)
            ELSE \E j \in 1..len(d) : j # i /\ Same(i, j)]

\* DataFrame.duplicated(subset, keep): NaN equals NaN
duplicated(d, subset, keep) ==
    [i \in 1..len(d) |->
        IF keep = "first"
        THEN \E j \in 1..(i - 1) : SubsetKey(d, subset, j) = SubsetKey(d, subset, i)
        ELSE \E j \in 1..len(d) :
                j # i /\ SubsetKey(d, subset, j) = SubsetKey(d, subset, i)]

\* keep='last': the last row of each group stays
drop_duplicates_keep_last(d, subset) ==
    Mask(d, [i \in 1..len(d) |->
                ~\E j \in (i + 1)..len(d) :
                    SubsetKey(d, subset, j) = SubsetKey(d, subset, i)])

\* DataFrame.drop_duplicates(subset, keep='first')
drop_duplicates(d, subset) ==
    LET dup == duplicated(d, subset, "first")
    IN  Mask(d, [i \in 1..len(d) |-> ~dup[i]])

\* dropna(how='all'): only the rows with no value at all go
dropna_all_null(d) ==
    Mask(d, [i \in 1..len(d) |-> \E j \in 1..Len(d.columns) : ~d.data[i][j].isnull])

\* DataFrame.dropna()
dropna(d) == Mask(d, [i \in 1..len(d) |-> ~RowHasNull(d, i)])

\* DataFrame.reset_index(drop=True)
reset_index(d) == [d EXCEPT !.index = [i \in 1..len(d) |-> i - 1]]

\* the non-null cells of a column, in row order
RECURSIVE NonNull(_, _)
NonNull(s, i) ==
    IF i > Len(s) THEN <<>>
    ELSE IF s[i].isnull THEN NonNull(s, i + 1)
         ELSE <<s[i]>> \o NonNull(s, i + 1)

RECURSIVE Sum(_, _)
Sum(s, i) == IF i > Len(s) THEN Num(0, 1) ELSE Add(s[i], Sum(s, i + 1))

\* Series.mean(): skips NaN, NaN when nothing is left
mean(d, col) ==
    LET v == NonNull(Column(d, col), 1)
    IN  IF Len(v) = 0 THEN NaN
        ELSE LET t == Sum(v, 1) IN Num(t.num, t.den * Len(v))

\* the k-th smallest (k from 1) of a sequence of numbers
Kth(v, k) ==
    CHOOSE x \in {v[i] : i \in 1..Len(v)} :
        /\ Cardinality({i \in 1..Len(v) : Less(v[i], x)}) < k
        /\ Cardinality({i \in 1..Len(v) : ~Less(x, v[i])}) >= k

\* Series.median(): skips NaN, NaN when nothing is left
median(d, col) ==
    LET v == NonNull(Column(d, col), 1)
        n == Len(v)
    IN  IF n = 0 THEN NaN
        ELSE IF n % 2 = 1 THEN Kth(v, (n + 1) \div 2)
        ELSE LET t == Add(Kth(v, n \div 2), Kth(v, n \div 2 + 1))
             IN  Num(t.num, t.den * 2)

\* Series.mode(): the most frequent non-null values, sorted
mode(d, col) ==
    LET v       == NonNull(Column(d, col), 1)
        Freq(x) == Cardinality({i \in 1..Len(v) : v[i] = x})
        top     == {x \in {v[i] : i \in 1..Len(v)} :
                       \A y \in {v[i] : i \in 1..Len(v)} : Freq(y) <= Freq(x)}
        Before(x, y) == IF x.str = "" /\ y.str = "" THEN Less(x, y)
                        ELSE StrRank(x.str) < StrRank(y.str)
    IN  [k \in 1..Cardinality(top) |->
            CHOOSE x \in top : Cardinality({y \in top : Before(y, x)}) = k - 1]

\* Series.fillna(value, inplace=True) on the column of the frame
fillna(d, col, value) ==
    LET j == ColPos(d, col)
    IN  [d EXCEPT !.data = [i \in 1..len(d) |->
            IF d.data[i][j].isnull
            THEN [d.data[i] EXCEPT ![j] = value]
            ELSE d.data[i]]]

Sub(a, b) == Num(a.num * b.den - b.num * a.den, a.den * b.den)

Mul(a, b) == Num(a.num * b.num, a.den * b.den)

\* Series.quantile(qn/qd): skips NaN, linear interpolation between the two
\* neighbours of position (n - 1) * q, NaN when nothing is left
quantile(d, col, qn, qd) ==
    LET v == NonNull(Column(d, col), 1)
        n == Len(v)
    IN  IF n = 0 THEN NaN
        ELSE LET h  == (n - 1) * qn
                 lo == h \div qd
                 r  == h % qd
                 a  == Kth(v, lo + 1)
             IN  IF r = 0 THEN a
                 ELSE Add(a, Mul(Num(r, qd), Sub(Kth(v, lo + 2), a)))

\* df.select_dtypes(include=[np.number]).columns
numeric_columns(d) == {c \in d.numeric : \E j \in 1..Len(d.columns) : d.columns[j] = c}

\* ------------------------------------------------------------ object store
\* a reference no object of the store has
NewRef(h) == CHOOSE r \in 1..(Cardinality(DOMAIN h) + 1) : r \notin DOMAIN h

\* df_clean = df: the same object under a second name
copy_alias(h, r) == [heap |-> h, ref |-> r]

\* DataFrame.copy(): a new object with the same contents
copy(h, r) ==
    LET n == NewRef(h) IN [heap |-> h @@ (n :> h[r]), ref |-> n]

\* dict.get(key, default)
Get(config, key, default) ==
    IF key \in DOMAIN config THEN config[key] ELSE default

\* ------------------------------------------------------------ DataCleaner
IsIdName(col) ==
    LET col_lower == lower(col)
    IN  \/ Contains(col_lower, TokId)
        \/ Contains(col_lower, TokBianhao)
        \/ Contains(col_lower, TokXuhao)

\* the loop of get_cols_to_check from column j on
RECURSIVE ColsLoop(_, _)
ColsLoop(d, j) ==
    IF j > Len(d.columns) THEN <<>>
    ELSE LET col == d.columns[j]
         IN  IF IsIdName(col) /\ is_unique(d, col)
             THEN ColsLoop(d, j + 1)
             ELSE <<col>> \o ColsLoop(d, j + 1)

get_cols_to_check(d) ==
    LET cols == ColsLoop(d, 1)
    IN  IF cols # <<>> THEN cols ELSE d.columns

\* keep='first': the first row of a group is not marked
dup_mask_keep_first(d, subset_cols) == duplicated(d, subset_cols, "first")

\* df.duplicated(subset=subset_cols, keep=False): every row of a group is marked
dup_mask_of(d, subset_cols) == duplicated(d, subset_cols, "False")

\* the fences at 3 * IQR from the quartiles
n_outliers_of_wide_fence(d, col) ==
    LET q1  == quantile(d, col, 1, 4)
        q3  == quantile(d, col, 3, 4)
    IN  IF q1.isnull THEN 0
        ELSE LET iqr   == Sub(q3, q1)
                 lower_fence == Sub(q1, Mul(Num(3, 1), iqr))
                 upper_fence == Add(q3, Mul(Num(3, 1), iqr))
                 s     == Column(d, col)
             IN  Cardinality({i \in 1..Len(s) :
                     /\ ~s[i].isnull
                     /\ (Less(s[i], lower_fence) \/ Less(upper_fence, s[i]))})

\* the outlier count of one numeric column in check_quality: comparisons
\* with NaN are false
n_outliers_of(d, col) ==
    LET q1  == quantile(d, col, 1, 4)
        q3  == quantile(d, col, 3, 4)
    IN  IF q1.isnull THEN 0
        ELSE LET iqr   == Sub(q3, q1)
                 lower_fence == Sub(q1, Mul(Num(3, 2), iqr))
                 upper_fence == Add(q3, Mul(Num(3, 2), iqr))
                 s     == Column(d, col)
             IN  Cardinality({i \in 1..Len(s) :
                     /\ ~s[i].isnull
                     /\ (Less(s[i], lower_fence) \/ Less(upper_fence, s[i]))})

check_quality(d) ==
    LET subset_cols       == get_cols_to_check(d)
        dup_mask          == dup_mask_of(d, subset_cols)
        duplicate_indices == Mask(d, dup_mask).index
        missing_mask      == [i \in 1..len(d) |-> RowHasNull(d, i)]
        missing_indices   == Mask(d, missing_mask).index
        nullCols          == {j \in 1..Len(d.columns) : NullCount(d, d.columns[j]) > 0}
    IN  [n_rows            |-> len(d),
         n_cols            |-> Len(d.columns),
         subset_cols       |-> subset_cols,
         duplicates        |-> Len(duplicate_indices),
         duplicate_indices |-> duplicate_indices,
         missing_count     |-> Cardinality({<<i, j>> \in (1..len(d)) \X (1..Len(d.columns)) :
                                               d.data[i][j].isnull}),
         missing_indices   |-> missing_indices,
         missing_details   |-> {<<d.columns[j], NullCount(d, d.columns[j])>> : j \in nullCols},
         outliers          |-> {<<col, n_outliers_of(d, col)>> :
                                   col \in {x \in numeric_columns(d) : n_outliers_of(d, x) > 0}}]

LogRecord(kind, n, detail, k) == [kind |-> kind, n |-> n, detail |-> detail, k |-> k]

\* an absent key read as true
remove_duplicates_default_on(config) == Get(config, "remove_duplicates", TRUE)

\* config.get('remove_duplicates')
remove_duplicates_flag(config) == Get(config, "remove_duplicates", FALSE)

\* apply_cleaning, step 1: st = [heap, logs], df_clean the reference cleaned in place
RemoveDuplicates(st, df_clean, config) ==
    IF remove_duplicates_flag(config)
    THEN LET isNone    == "duplicate_subset" \notin DOMAIN config
             d         == st.heap[df_clean]
             subset    == IF isNone THEN d.columns ELSE config["duplicate_subset"]
             n_before  == len(d)
             dropped   == drop_duplicates(d, subset)
             n_dropped == n_before - len(dropped)
         IN  [heap |-> [st.heap EXCEPT ![df_clean] = dropped],
              logs |-> IF n_dropped > 0
                       THEN Append(st.logs,
                                LogRecord("drop_duplicates", n_dropped,
                                          IF isNone THEN "all columns" ELSE "ID columns excluded",
                                          IF isNone THEN 0 ELSE Len(subset)))
                       ELSE st.logs]
    ELSE st

\* the fill loop of apply_cleaning from column j on:
\* acc = [d, filled_count, method_str]
RECURSIVE FillLoop(_, _, _, _)
FillLoop(acc, j, method, numeric_cols) ==
    IF j > Len(acc.d.columns) THEN acc
    ELSE LET col == acc.d.columns[j]
         IN  IF NullCount(acc.d, col) > 0
             THEN LET fill_val ==
                          IF col \in numeric_cols
                          THEN IF method = "mean" THEN mean(acc.d, col)
                               ELSE median(acc.d, col)
                          ELSE IF mode(acc.d, col) # <<>> THEN mode(acc.d, col)[1]
                               ELSE Str("Unknown")
                      method_str ==
                          IF col \in numeric_cols
                          THEN IF method = "mean" THEN "mean" ELSE "median"
                          ELSE "mode"
                  IN  FillLoop([d            |-> fillna(acc.d, col, fill_val),
                                filled_count |-> acc.filled_count + 1,
                                method_str   |-> method_str],
                               j + 1, method, numeric_cols)
             ELSE FillLoop(acc, j + 1, method, numeric_cols)

\* apply_cleaning, step 2
HandleMissing(st, df_clean, config) ==
    IF Get(config, "handle_missing", FALSE)
    THEN LET method == Get(config, "missing_method", "mean")
             d      == st.heap[df_clean]
         IN  IF method = "drop"
             THEN LET n_before  == len(d)
                      dropped   == dropna(d)
                      n_dropped == n_before - len(dropped)
                  IN  [heap |-> [st.heap EXCEPT ![df_clean] = dropped],
                       logs |-> IF n_dropped > 0
                                THEN Append(st.logs, LogRecord("dropna", n_dropped, "", 0))
                                ELSE st.logs]
             ELSE LET numeric_cols == numeric_columns(d)
                      acc == FillLoop([d |-> d, filled_count |-> 0, method_str |-> ""],
                                      1, method, numeric_cols)
                  IN  [heap |-> [st.heap EXCEPT ![df_clean] = acc.d],
                       logs |-> IF acc.filled_count > 0
                                THEN Append(st.logs,
                                         LogRecord("fillna", acc.filled_count, acc.method_str, 0))
                                ELSE st.logs]
    ELSE st

\* missing values handled before the duplicates are removed
apply_cleaning_missing_first(h, r, config) ==
    LET c        == copy(h, r)
        df_clean == c.ref
        s1       == HandleMissing([heap |-> c.heap, logs |-> <<>>], df_clean, config)
        s2       == RemoveDuplicates(s1, df_clean, config)
    IN  [heap     |-> [s2.heap EXCEPT ![df_clean] = reset_index(@)],
         df_clean |-> df_clean,
         logs     |-> s2.logs]

\* apply_cleaning(df, config) on the store h, df being the reference r:
\* the store afterwards, the reference returned and the log
apply_cleaning(h, r, config) ==
    LET c        == copy(h, r)
        df_clean == c.ref
        s1       == RemoveDuplicates([heap |-> c.heap, logs |-> <<>>], df_clean, config)
        s2       == HandleMissing(s1, df_clean, config)
    IN  [heap     |-> [s2.heap EXCEPT ![df_clean] = reset_index(@)],
         df_clean |-> df_clean,
         logs     |-> s2.logs]

\* ------------------------------------------------- run_kmeans_clustering
ColCluster == <<"C","l","u","s","t","e","r">>

\* df[columns]
Project(d, columns) ==
    [columns |-> columns,
     numeric |-> {c \in d.numeric : \E k \in 1..Len(columns) : columns[k] = c},
     index   |-> d.index,
     data    |-> [i \in 1..len(d) |->
                    [k \in 1..Len(columns) |-> d.data[i][ColPos(d, columns[k])]]]]

\* df[col] = values, col a new numeric column
AddColumn(d, col, values) ==
    [d EXCEPT !.columns = Append(@, col),
              !.numeric = @ \cup {col},
              !.data    = [i \in 1..len(d) |-> Append(d.data[i], values[i])]]

\* df[columns].dropna()
data_raw_of(d, columns) == dropna(Project(d, columns))

\* the label as fit_predict returns it, from 0
cluster_label_from_zero(label) == label

\* labels + 1: the clusters are numbered from 1
cluster_label(label) == label + 1

\* run_kmeans_clustering(df, columns, k) on the store h, df being the
\* reference r; labels is what KMeans.fit_predict returned for data_raw
run_kmeans_clustering(h, r, columns, k, labels) ==
    LET data_raw == NewRef(h)
        h1       == h @@ (data_raw :> data_raw_of(h[r], columns))
    IN  IF len(h1[data_raw]) < k
        THEN [heap |-> h1, error |-> TRUE, result_df |-> 0, counts |-> <<>>]
        ELSE LET c         == copy(h1, data_raw)
                 result_df == c.ref
             IN  [heap      |-> [c.heap EXCEPT ![result_df] =
                                    AddColumn(@, ColCluster,
                                        [i \in 1..len(@) |-> Num(cluster_label(labels[i]), 1)])],
                  error     |-> FALSE,
                  result_df |-> result_df,
                  counts    |-> [i \in 1..k |->
                                    Cardinality({n \in 1..Len(labels) : labels[n] = i - 1})]]

\* ------------------------------------------------------ statistical tests
\* the significance level every test of the package compares p with
Alpha == Num(1, 20)

\* a > b and a < b on floats: false when either side is NaN
Greater(a, b) == ~a.isnull /\ ~b.isnull /\ Less(b, a)

Smaller(a, b) == ~a.isnull /\ ~b.isnull /\ Less(a, b)

\* Series.unique() of the cells s from position i on, seen being the values
\* met so far: the values in order of first appearance
RECURSIVE UniqueLoop(_, _, _)
UniqueLoop(s, i, seen) ==
    IF i > Len(s) THEN <<>>
    ELSE IF s[i] \in seen THEN UniqueLoop(s, i + 1, seen)
         ELSE <<s[i]>> \o UniqueLoop(s, i + 1, seen \cup {s[i]})

\* the groups in the reverse of their order of appearance
groups_of_reversed(d, group_col) ==
    LET u == UniqueLoop(NonNull(Column(d, group_col), 1), 1, {})
    IN  [k \in 1..Len(u) |-> u[Len(u) + 1 - k]]

\* df[group_col].dropna().unique()
groups_of(d, group_col) == UniqueLoop(NonNull(Column(d, group_col), 1), 1, {})

\* df[df[group_col] == g][value_col].dropna()
group_data(d, group_col, value_col, g) ==
    LET rows == Mask(d, [i \in 1..len(d) |-> Column(d, group_col)[i] = g])
    IN  NonNull(Column(rows, value_col), 1)

\* len(groups) < 2
group_count_below_two(groups) == Len(groups) < 2

\* len(groups) != 2
group_count_invalid(groups) == Len(groups) # 2

\* equal_var = p_lev >= 0.05
equal_var_at_alpha(p_lev) == ~p_lev.isnull /\ ~Less(p_lev, Alpha)

\* equal_var = p_lev > 0.05
equal_var_of(p_lev) == Greater(p_lev, Alpha)

\* np.mean of a sequence of numbers
np_mean(v) == LET t == Sum(v, 1) IN Num(t.num, t.den * Len(v))

\* the sum of the squared distances of the values from their mean
RECURSIVE SquaresLoop(_, _, _)
SquaresLoop(v, m, i) ==
    IF i > Len(v) THEN Num(0, 1)
    ELSE Add(Mul(Sub(v[i], m), Sub(v[i], m)), SquaresLoop(v, m, i + 1))

\* np.std(v, ddof=1) ** 2
variance(v) ==
    LET q == SquaresLoop(v, np_mean(v), 1) IN Num(q.num, q.den * (Len(v) - 1))

\* pooled_std ** 2: ((n1 - 1) * s1**2 + (n2 - 1) * s2**2) / dof
pooled_variance(data1, data2) ==
    LET n1 == Len(data1)
        n2 == Len(data2)
        t  == Add(Mul(Num(n1 - 1, 1), variance(data1)),
                  Mul(Num(n2 - 1, 1), variance(data2)))
    IN  Num(t.num, t.den * (n1 + n2 - 2))

\* (m1 - m2) ** 2
mean_gap_squared(data1, data2) ==
    LET g == Sub(np_mean(data1), np_mean(data2)) IN Mul(g, g)

\* 'large' from |d| > 0.5 on
effect_label_large_above_half(gap2, pooled) ==
    IF pooled.num = 0 THEN (IF gap2.num = 0 THEN "small" ELSE "large")
    ELSE IF Less(Mul(Num(1, 4), pooled), gap2) THEN "large"
    ELSE "small"

\* the label of abs(cohens_d) = sqrt(gap2 / pooled): above 0.8 large, above
\* 0.5 medium, else small; a zero pooled_std makes cohens_d inf (large) or,
\* with equal means, nan (no comparison holds: small)
effect_label(gap2, pooled) ==
    IF pooled.num = 0 THEN (IF gap2.num = 0 THEN "small" ELSE "large")
    ELSE IF Less(Mul(Num(16, 25), pooled), gap2) THEN "large"
    ELSE IF Less(Mul(Num(1, 4), pooled), gap2) THEN "medium"
    ELSE "small"

\* the squares of the two-sided 5% points of Student's t for 1 to 10 degrees
\* of freedom, and of the normal distribution
CriticalSquared ==
    << Num(161448, 1000), Num(18513, 1000), Num(10128, 1000), Num(7709, 1000),
       Num(6608, 1000), Num(5987, 1000), Num(5591, 1000), Num(5318, 1000),
       Num(5117, 1000), Num(4965, 1000) >>

CriticalSquaredNormal == Num(38415, 10000)

\* an upper and a lower bound of the squared 5% point for df degrees of
\* freedom (df a fraction of 1 or more)
critical_upper(dof) ==
    LET f == dof.num \div dof.den
    IN  CriticalSquared[IF f > Len(CriticalSquared) THEN Len(CriticalSquared) ELSE f]

critical_lower(dof) ==
    LET c == (dof.num + dof.den - 1) \div dof.den
    IN  IF c > Len(CriticalSquared) THEN CriticalSquaredNormal ELSE CriticalSquared[c]

\* the p-values stats.ttest_ind(data1, data2, equal_var) can return: NaN for
\* 0/0, below 0.05 when t**2 is above the 5% point of its degrees of freedom
\* (the pooled n1 + n2 - 2 or Welch's), not below 0.05 when t**2 is under it
ttest_ind(data1, data2, equal_var, pvalues) ==
    LET n1   == Len(data1)
        n2   == Len(data2)
        v1   == LET s == variance(data1) IN Num(s.num, s.den * n1)
        v2   == LET s == variance(data2) IN Num(s.num, s.den * n2)
        gap2 == mean_gap_squared(data1, data2)
        se2  == IF equal_var
                THEN Mul(pooled_variance(data1, data2), Add(Num(1, n1), Num(1, n2)))
                ELSE Add(v1, v2)
    IN  IF se2.num = 0
        THEN IF gap2.num = 0 THEN {p \in pvalues : p.isnull}
             ELSE {p \in pvalues : Smaller(p, Alpha)}
        ELSE LET t2 == Num(gap2.num * se2.den, gap2.den * se2.num)
                 w  == Add(Mul(v1, Num(v1.num, v1.den * (n1 - 1))),
                           Mul(v2, Num(v2.num, v2.den * (n2 - 1))))
                 s  == Mul(Add(v1, v2), Add(v1, v2))
                 dof == IF equal_var THEN Num(n1 + n2 - 2, 1)
                       ELSE Num(s.num * w.den, s.den * w.num)
             IN  {p \in pvalues :
                    /\ ~p.isnull
                    /\ Less(critical_upper(dof), t2) => Smaller(p, Alpha)
                    /\ Less(t2, critical_lower(dof)) => ~Smaller(p, Alpha)}

\* independent_ttest(df, group_col, value_col); p_lev and p_val are the
\* p-values stats.levene and stats.ttest_ind return for the two samples
independent_ttest(d, group_col, value_col, p_lev, p_val) ==
    LET groups == groups_of(d, group_col)
    IN  IF group_count_invalid(groups)
        THEN [kind |-> "error_group_count", n_groups |-> Len(groups), groups |-> groups]
        ELSE LET data1 == group_data(d, group_col, value_col, groups[1])
                 data2 == group_data(d, group_col, value_col, groups[2])
             IN  IF Len(data1) < 2 \/ Len(data2) < 2
                 THEN [kind |-> "error_sample"]
                 ELSE IF value_col \notin d.numeric
                 THEN [kind |-> "raised", at |-> "np.mean"]
                 ELSE LET equal_var == equal_var_of(p_lev)
                      IN  [kind      |-> "report",
                           groups    |-> groups,
                           n         |-> <<Len(data1), Len(data2)>>,
                           mean      |-> <<np_mean(data1), np_mean(data2)>>,
                           effect    |-> effect_label(mean_gap_squared(data1, data2),
                                                      pooled_variance(data1, data2)),
                           p_lev     |-> p_lev,
                           ttest_ind |-> [equal_var |-> equal_var],
                           p_val     |-> p_val,
                           test_name |-> IF equal_var THEN "standard" ELSE "welch",
                           significant |-> Smaller(p_val, Alpha)]

\* the per-group sample check of one_way_anova from group k on: the first
\* group with fewer than 2 values ends the call
RECURSIVE GroupLoop(_, _, _, _, _)
GroupLoop(d, group_col, value_col, groups, k) ==
    IF k > Len(groups) THEN [kind |-> "ok"]
    ELSE IF Len(group_data(d, group_col, value_col, groups[k])) < 2
         THEN [kind |-> "error_sample", group |-> groups[k]]
         ELSE GroupLoop(d, group_col, value_col, groups, k + 1)

\* len(groups) < 2
too_few_groups_below_two(groups) == Len(groups) < 2

\* len(groups) < 3
too_few_groups(groups) == Len(groups) < 3

\* the Tukey table goes into the report whatever p is
posthoc_reported_always(p_val) == TRUE

\* if p_val < 0.05: the branch of the report that lists the Tukey table
posthoc_reported(p_val) == Smaller(p_val, Alpha)

\* one_way_anova(df, group_col, value_col); p_lev and p_val are the p-values
\* stats.levene and stats.f_oneway return for the groups
one_way_anova(d, group_col, value_col, p_lev, p_val) ==
    LET groups == groups_of(d, group_col)
    IN  IF too_few_groups(groups)
        THEN [kind |-> "hint_use_ttest", n_groups |-> Len(groups)]
        ELSE LET checked == GroupLoop(d, group_col, value_col, groups, 1)
             IN  IF checked.kind # "ok" THEN checked
                 ELSE IF value_col \notin d.numeric
                 THEN [kind |-> "raised", at |-> "groupby.agg"]
                 ELSE LET endog  == NonNull(Column(d, value_col), 1)
                          labels == NonNull(Column(d, group_col), 1)
                      IN  IF Len(endog) # Len(labels)
                          THEN [kind |-> "raised", at |-> "pairwise_tukeyhsd"]
                          ELSE [kind    |-> "report",
                                groups  |-> groups,
                                p_lev   |-> p_lev,
                                p_val   |-> p_val,
                                tukey   |-> [endog |-> endog, groups |-> labels],
                                posthoc |-> IF posthoc_reported(p_val)
                                            THEN "tukey_table" ELSE "unnecessary"]

\* the sample size from which check_normality uses Kolmogorov-Smirnov
NormalityLimit == 50

\* every sample tested with Shapiro-Wilk
normality_test_shapiro(n) == "shapiro"

\* the test check_normality runs on a series of n values
normality_test(n) == IF n > NormalityLimit THEN "kstest" ELSE "shapiro"

\* check_normality(series), p the p-value its test returns
check_normality(n, p) ==
    [test |-> normality_test(n), p |-> p, normal |-> Greater(p, Alpha)]

\* the sample size check of correlation_analysis after the dtype check
correlation_types_first(d, var1_col, var2_col, n) ==
    IF var1_col \notin d.numeric \/ var2_col \notin d.numeric THEN "error_type"
    ELSE IF n < 3 THEN "error_sample"
    ELSE "ok"

\* the two checks of correlation_analysis, in the order of the code
correlation_checks(d, var1_col, var2_col, n) ==
    IF n < 3 THEN "error_sample"
    ELSE IF var1_col \notin d.numeric \/ var2_col \notin d.numeric THEN "error_type"
    ELSE "ok"

\* the first variable alone decides
use_pearson_first_only(norm1, norm2) == norm1.normal

\* use_pearson = norm1 and norm2
use_pearson_of(norm1, norm2) == norm1.normal /\ norm2.normal

\* the strength named for r: comparisons with NaN are false
strength_of(r) ==
    LET abs_r == IF r.isnull THEN r ELSE Num(Abs(r.num), r.den)
    IN  IF Smaller(abs_r, Num(3, 10)) THEN "very weak"
        ELSE IF Smaller(abs_r, Num(1, 2)) THEN "low"
        ELSE IF Smaller(abs_r, Num(4, 5)) THEN "medium"
        ELSE "high"

\* the direction named for r
direction_of(r) ==
    IF Greater(r, Num(0, 1)) THEN "positive"
    ELSE IF Smaller(r, Num(0, 1)) THEN "negative"
    ELSE "none"

\* correlation_analysis(df, var1_col, var2_col); p1 and p2 are the p-values
\* of the two normality tests, res the r and p of the coefficient computed
correlation_analysis(d, var1_col, var2_col, p1, p2, res) ==
    LET data    == dropna(Project(d, <<var1_col, var2_col>>))
        n       == len(data)
        checked == correlation_checks(d, var1_col, var2_col, n)
    IN  IF checked = "error_sample" THEN [kind |-> "error_sample", n |-> n]
        ELSE IF checked = "error_type"
        THEN [kind |-> "error_type",
              types |-> <<var1_col \in d.numeric, var2_col \in d.numeric>>]
        ELSE LET norm1       == check_normality(n, p1)
                 norm2       == check_normality(n, p2)
                 use_pearson == use_pearson_of(norm1, norm2)
             IN  [kind        |-> "report",
                  n           |-> n,
                  sample      |-> data.index,
                  r           |-> res.r,
                  p_val       |-> res.p,
                  strength    |-> strength_of(res.r),
                  direction   |-> direction_of(res.r),
                  significant |-> Smaller(res.p, Alpha),
                  norm        |-> <<norm1, norm2>>,
                  computed    |-> IF use_pearson THEN "pearsonr" ELSE "spearmanr",
                  method_name |-> IF use_pearson THEN "Pearson" ELSE "Spearman"]

\* len(data) < 3
pca_sample_too_small_three(data) == len(data) < 3

\* len(data) < 2
pca_sample_too_small(data) == len(data) < 2

\* run_pca_analysis(df, columns) with n_components left out
run_pca_analysis(d, columns) ==
    LET data == dropna(Project(d, columns))
    IN  IF pca_sample_too_small(data) THEN [kind |-> "error_sample"]
        ELSE LET n_components == IF Len(columns) < 5 THEN Len(columns) ELSE 5
                 n_samples    == len(data)
                 n_features   == Len(columns)
             IN  IF \/ \E k \in 1..Len(columns) : columns[k] \notin d.numeric
                    \/ n_components > n_samples
                    \/ n_components > n_features
                 THEN [kind |-> "raised", at |-> "sklearn"]
                 ELSE [kind |-> "report", n_samples |-> n_samples,
                       n_components    |-> n_components,
                       pca_df          |-> [columns |-> n_components, rows |-> n_samples],
                       variance_ratio  |-> n_components,
                       components_df   |-> [columns |-> n_components,
                                            rows    |-> n_features]]

\* ---------------------------------------------------------------- inputs
ColId      == <<"i", "d">>
ColVal     == <<"v", "a", "l">>
ColUserID  == <<"U", "s", "e", "r", "I", "D">>
ColGrp     == <<"g", "r", "p">>
ColXuhao   == TokXuhao
ColBianhao == TokBianhao
ColName    == <<"n", "a", "m", "e">>
ColX       == <<"x">>
ColY       == <<"y">>

Whole(n) == Num(n, 1)

\* the column layouts of the datasets: names, dtypes and the cells of each column
Schemas ==
    { [columns |-> <<ColId, ColVal>>, numeric |-> {ColId, ColVal},
       domain  |-> <<{Whole(1), Whole(2)}, {NaN, Whole(1), Whole(2)}>>],
      [columns |-> <<ColUserID, ColXuhao>>, numeric |-> {ColUserID},
       domain  |-> <<{Whole(1), Whole(2)}, {Str("a"), Str("b")}>>],
      [columns |-> <<ColVal, ColGrp>>, numeric |-> {ColVal},
       domain  |-> <<{NaN, Whole(1)}, {NaN, Str("a"), Str("b")}>>],
      [columns |-> <<ColBianhao>>, numeric |-> {},
       domain  |-> <<{Str("a"), Str("b")}>>] }

AllCells == {NaN, Whole(1), Whole(2), Str("a"), Str("b")}

RowsOf(s) ==
    {row \in [1..Len(s.columns) -> AllCells] :
        \A j \in 1..Len(s.columns) : row[j] \in s.domain[j]}

RangeIndex(n) == [i \in 1..n |-> i - 1]

Frame(columns, numeric, rows) ==
    [columns |-> columns, numeric |-> numeric,
     index |-> RangeIndex(Len(rows)), data |-> rows]

\* the end-to-end dataset [(id=1,val=10),(id=1,val=10),(id=2,val=20)]
EndToEndDataset ==
    Frame(<<ColId, ColVal>>, {ColId, ColVal},
          << <<Whole(1), Whole(10)>>, <<Whole(1), Whole(10)>>, <<Whole(2), Whole(20)>> >>)

\* the two groups A = [10, 12, 11] and B = [20, 19, 21]
TTestDataset ==
    Frame(<<ColGrp, ColVal>>, {ColVal},
          << <<Str("a"), Whole(10)>>, <<Str("a"), Whole(12)>>, <<Str("a"), Whole(11)>>,
             <<Str("b"), Whole(20)>>, <<Str("b"), Whole(19)>>, <<Str("b"), Whole(21)>> >>)

\* two groups a medium effect apart: [1, 3] and [2, 4]
MediumEffectDataset ==
    Frame(<<ColGrp, ColVal>>, {ColVal},
          << <<Str("a"), Whole(1)>>, <<Str("b"), Whole(2)>>,
             <<Str("a"), Whole(3)>>, <<Str("b"), Whole(4)>> >>)

\* a dataset whose val column has a mean different from its median
SkewedDataset ==
    Frame(<<ColVal, ColGrp>>, {ColVal},
          << <<Whole(1), Str("a")>>, <<Whole(1), Str("b")>>,
             <<Whole(4), NaN>>, <<NaN, Str("b")>> >>)

\* datasets whose val column has one value beyond the upper fence, or one
\* below the lower fence, next to a numeric column with no outlier and a
\* text column
OutlierDatasets ==
    { Frame(<<ColId, ColVal, ColGrp>>, {ColId, ColVal},
            << <<Whole(1), Whole(1), Str("a")>>, <<Whole(1), Whole(1), Str("b")>>,
               <<Whole(2), Whole(1), Str("a")>>, <<Whole(2), far, Str("b")>>,
               <<Whole(2), NaN, Str("a")>> >>) : far \in {Whole(2), Whole(0)} }

\* the group labels of the grouped datasets, row by row
GroupPatterns ==
    { <<Str("a"), Str("a"), Str("b"), Str("b")>>,
      <<Str("a"), Str("b"), Str("a"), Str("b"), Str("c")>>,
      <<Str("b"), Str("a"), Str("c"), Str("c")>>,
      <<Str("a"), Str("a"), Str("b"), Str("b"), Str("c"), Str("c")>>,
      <<Str("a"), Str("a"), Str("a"), Str("b"), Str("b"), Str("c"), Str("c")>>,
      <<Str("a"), Str("a"), NaN, Str("b"), Str("b"), Str("c"), Str("c")>>,
      <<Str("a"), Str("a"), Str("a"), NaN, Str("b"), Str("b"), Str("c"), Str("c")>> }

\* a grouping column next to a numeric column with at most one null
GroupedDatasets ==
    UNION { { Frame(<<ColGrp, ColVal>>, {ColVal},
                    [i \in 1..Len(labels) |->
                        <<labels[i], IF i = nullAt THEN NaN ELSE Whole(1 + (i % 2))>>]) :
                nullAt \in 0..Len(labels) } :
            labels \in GroupPatterns }

\* a grouping column next to a text column
TextDatasets ==
    { Frame(<<ColGrp, ColName>>, {},
            [i \in 1..Len(labels) |->
                <<labels[i], IF i % 2 = 0 THEN Str("a") ELSE Str("b")>>]) :
        labels \in { <<Str("a"), Str("a"), Str("b"), Str("b")>>,
                     <<Str("a"), Str("a"), Str("b"), Str("b"), Str("c"), Str("c")>> } }

\* two numeric columns on either side of the sample size at which
\* check_normality changes its test, without a null or with one
LargeDatasets ==
    { Frame(<<ColX, ColY>>, {ColX, ColY},
            [i \in 1..n |->
                <<Whole(i % 2), IF i = nullAt THEN NaN ELSE Whole(1 + (i % 2))>>]) :
        n \in {NormalityLimit, NormalityLimit + 1}, nullAt \in {0, 1} }

\* the names c1 .. c6
WideColumns == [j \in 1..6 |-> <<"c", <<"1", "2", "3", "4", "5", "6">>[j]>>]

\* numeric columns only: 3 columns with 2 or 3 rows, 6 columns with 6 rows
WideDatasets ==
    { Frame(SubSeq(WideColumns, 1, shape[1]),
            {WideColumns[j] : j \in 1..shape[1]},
            [i \in 1..shape[2] |-> [j \in 1..shape[1] |-> Whole((i % 2) * j)]]) :
        shape \in {<<3, 2>>, <<3, 3>>, <<6, 6>>} }

\* what a successful load leaves in self.df: a default RangeIndex
Datasets ==
    UNION { {Frame(s.columns, s.numeric, rows) : rows \in [1..n -> RowsOf(s)]} :
            s \in Schemas, n \in 0..MaxRows }
    \cup {EndToEndDataset, SkewedDataset}
    \cup OutlierDatasets \cup GroupedDatasets \cup TextDatasets \cup LargeDatasets
    \cup WideDatasets \cup {TTestDataset, MediumEffectDataset}

RECURSIVE KeepCols(_, _, _)
KeepCols(cols, m, j) ==
    IF j > Len(cols) THEN <<>>
    ELSE (IF m[j] THEN <<cols[j]>> ELSE <<>>) \o KeepCols(cols, m, j + 1)

\* the non-empty column lists within cols, in column order
ColSubsets(cols) ==
    {KeepCols(cols, m, 1) : m \in [1..Len(cols) -> BOOLEAN]} \ {<<>>}

NoKeys == [k \in {} |-> TRUE]

\* the cleaning configs a caller passes for dataset d
Configs(d) ==
    LET dupPart ==
            {NoKeys, ("remove_duplicates" :> FALSE), ("remove_duplicates" :> TRUE),
             ("duplicate_subset" :> d.columns)}
            \cup {("remove_duplicates" :> TRUE) @@ ("duplicate_subset" :> s) :
                    s \in ColSubsets(d.columns)}
        missPart ==
            {NoKeys, ("handle_missing" :> TRUE),
             ("handle_missing" :> FALSE) @@ ("missing_method" :> "drop")}
            \cup {("handle_missing" :> TRUE) @@ ("missing_method" :> m) :
                    m \in {"mean", "median", "drop"}}
        noDupPart == {NoKeys, ("duplicate_subset" :> d.columns)}
    IN  {a @@ b : a \in dupPart, b \in missPart}
        \cup {a @@ b @@ ("encoding" :> "utf-8") : a \in noDupPart, b \in missPart}

Ks == {2, 3}

\* labelings fit_predict can return for frame d: one cluster per row, equal
\* rows in the same cluster
Labelings(d, k) ==
    LET points == {d.data[i] : i \in 1..len(d)}
    IN  {[i \in 1..len(d) |-> f[d.data[i]]] : f \in [points -> 0..(k - 1)]}

\* the p-values a scipy test can return: NaN (a test on constant samples),
\* below, at and above the significance level
PValues == {NaN, Num(1, 100), Alpha, Num(1, 2)}

\* the r and p stats.pearsonr or stats.spearmanr can return: each strength
\* and direction, and NaN for a constant variable
CorrelationResults ==
    { [r |-> Num(-9, 10), p |-> Num(1, 100)], [r |-> Num(3, 5), p |-> Alpha],
      [r |-> Num(2, 5), p |-> Num(1, 100)], [r |-> Num(0, 1), p |-> Num(1, 2)],
      [r |-> NaN, p |-> NaN] }

\* the ordered pairs of different columns a SelectionDialog can return
ColumnPairs(d) ==
    {<<d.columns[i], d.columns[j]>> : i, j \in 1..Len(d.columns)}
        \ {<<d.columns[i], d.columns[i]>> : i \in 1..Len(d.columns)}

\* ------------------------------------------------------------ the caller
NoCall == [op |-> "none"]
NoRet  == [op |-> "none"]

\* a caller without a main window
NoWindow == "none"

Init ==
    /\ \E d \in Datasets : heap = (1 :> d)
    /\ df = 1
    /\ pc = "idle"
    /\ call = NoCall
    /\ ret = NoRet
    /\ window = NoWindow

\* report = DataCleaner.check_quality(df)
CheckQuality ==
    /\ pc = "idle"
    /\ pc' = "returned"
    /\ call' = [op |-> "check_quality"]
    /\ ret' = [op |-> "check_quality", report |-> check_quality(heap[df])]
    /\ UNCHANGED <<heap, df, window>>

\* new_df, logs = DataCleaner.apply_cleaning(df, config)
ApplyCleaning ==
    /\ pc = "idle"
    /\ \E config \in Configs(heap[df]) :
         LET r == apply_cleaning(heap, df, config)
         IN  /\ heap' = r.heap
             /\ call' = [op |-> "apply_cleaning", config |-> config]
             /\ ret' = [op |-> "apply_cleaning", df_clean |-> r.df_clean, logs |-> r.logs]
    /\ pc' = "returned"
    /\ UNCHANGED <<df, window>>

\* report, result_df, centers = run_kmeans_clustering(df, columns, k)
RunKMeans ==
    /\ pc = "idle"
    /\ \E columns \in ColSubsets(SelectSeq(heap[df].columns,
                                           LAMBDA c : c \in heap[df].numeric)),
          k \in Ks :
         \E labels \in Labelings(data_raw_of(heap[df], columns), k) :
           LET r == run_kmeans_clustering(heap, df, columns, k, labels)
           IN  /\ heap' = r.heap
               /\ call' = [op |-> "run_kmeans_clustering", columns |-> columns, k |-> k]
               /\ ret' = [op |-> "run_kmeans_clustering", error |-> r.error,
                          result_df |-> r.result_df, counts |-> r.counts]
    /\ pc' = "returned"
    /\ UNCHANGED <<df, window>>

\* report = independent_ttest(df, group_col, value_col)
RunTTest ==
    /\ pc = "idle"
    /\ \E cols \in ColumnPairs(heap[df]), p_lev, p_val \in PValues :
         LET outcome == independent_ttest(heap[df], cols[1], cols[2], p_lev, p_val)
         IN  /\ outcome.kind = "report" =>
                   p_val \in ttest_ind(
                       group_data(heap[df], cols[1], cols[2], outcome.groups[1]),
                       group_data(heap[df], cols[1], cols[2], outcome.groups[2]),
                       outcome.ttest_ind.equal_var, PValues)
             /\ call' = [op |-> "independent_ttest",
                         group_col |-> cols[1], value_col |-> cols[2]]
             /\ ret' = [op |-> "independent_ttest", outcome |-> outcome]
    /\ pc' = "returned"
    /\ UNCHANGED <<heap, df, window>>

\* report = one_way_anova(df, group_col, value_col)
RunAnova ==
    /\ pc = "idle"
    /\ \E cols \in ColumnPairs(heap[df]), p_lev, p_val \in PValues :
         /\ call' = [op |-> "one_way_anova",
                     group_col |-> cols[1], value_col |-> cols[2]]
         /\ ret' = [op |-> "one_way_anova",
                    outcome |-> one_way_anova(heap[df], cols[1], cols[2],
                                              p_lev, p_val)]
    /\ pc' = "returned"
    /\ UNCHANGED <<heap, df, window>>

\* report = correlation_analysis(df, var1, var2)
RunCorrelation ==
    /\ pc = "idle"
    /\ \E cols \in ColumnPairs(heap[df]), p1, p2 \in PValues \ {NaN},
          res \in CorrelationResults :
         /\ call' = [op |-> "correlation_analysis",
                     var1_col |-> cols[1], var2_col |-> cols[2]]
         /\ ret' = [op |-> "correlation_analysis",
                    outcome |-> correlation_analysis(heap[df], cols[1], cols[2],
                                                     p1, p2, res)]
    /\ pc' = "returned"
    /\ UNCHANGED <<heap, df, window>>

\* report, pca_df, variance_ratio, components_df = run_pca_analysis(df, cols)
\* on two or more of the numeric columns
RunPCA ==
    /\ pc = "idle"
    /\ \E columns \in ColSubsets(SelectSeq(heap[df].columns,
                                           LAMBDA c : c \in heap[df].numeric)) :
         /\ Len(columns) >= 2
         /\ call' = [op |-> "run_pca_analysis", columns |-> columns]
         /\ ret' = [op |-> "run_pca_analysis",
                    outcome |-> run_pca_analysis(heap[df], columns)]
    /\ pc' = "returned"
    /\ UNCHANGED <<heap, df, window>>

\* the caller drops what the call returned; the objects only the call
\* referred to are gone
Return ==
    /\ pc = "returned"
    /\ pc' = "idle"
    /\ heap' = (df :> heap[df])
    /\ call' = NoCall
    /\ ret' = NoRet
    /\ UNCHANGED <<df, window>>

Next ==
    \/ CheckQuality
    \/ ApplyCleaning
    \/ RunKMeans
    \/ RunTTest
    \/ RunAnova
    \/ RunCorrelation
    \/ RunPCA
    \/ Return

Spec == Init /\ [][Next]_vars

\* ------------------------------------------------------------ main window
\* MainWindow: self.df is the variable df (None before the first load), the
\* record window holds is_activated, the enabled sidebar buttons, the data
\* view and the result view (empty, or holding a text); pc is "main" in the
\* event loop, "cleaning_dialog" while that modal dialog is open and
\* "handled" when a handler has just returned, call then being the handler
\* and how it ended, ret the engine call it made.  The tab index, the plot
\* view and the status bar are not part of the state.
None == 0

SidebarButtons ==
    {"btn_clean", "btn_desc", "btn_ttest", "btn_anova", "btn_corr", "btn_reg",
     "btn_pca", "btn_kmeans", "btn_export"}

\* the button left as Qt creates it, enabled
setup_sidebar_btn_left_enabled(btn) == TRUE

\* setup_sidebar_btn: btn.setEnabled(False)
setup_sidebar_btn(btn) == FALSE

NoBackground == [row \in {} |-> ""]

\* display_rows = min(1000, df.shape[0])
display_rows(d) == IF len(d) < 1000 THEN len(d) ELSE 1000

\* the items of the table keep their background
load_data_keeping_background(view, d) ==
    [shown |-> d, rowCount |-> display_rows(d), background |-> view.background]

\* DataView.load_data(df): every cell gets a new item
load_data(view, d) ==
    [shown |-> d, rowCount |-> display_rows(d), background |-> NoBackground]

\* DataView.highlight_rows(row_indices, color): the rows of the table at
\* the positions row_indices, those past the last row skipped
highlight_rows(view, row_indices, color) ==
    LET rows == {row_indices[k] : k \in 1..Len(row_indices)}
                    \cap (0..(view.rowCount - 1))
        old  == view.background
    IN  [view EXCEPT !.background =
            [row \in DOMAIN old \cup rows |-> IF row \in rows THEN color ELSE old[row]]]

\* MainWindow.__init__ and init_ui, check_license being what
\* LicenseManager.check_license returned
MainWindow(check_license) ==
    [is_activated |-> check_license,
     enabled      |-> {btn \in SidebarButtons : setup_sidebar_btn(btn)},
     data_view    |-> [shown |-> Frame(<<>>, {}, <<>>), rowCount |-> 0,
                       background |-> NoBackground],
     result_view  |-> ""]

\* every feature open to every session
check_pro_feature_open(w) == TRUE

\* MainWindow.check_pro_feature
check_pro_feature(w) == w.is_activated

\* CleaningDialog.on_apply: the config built from the report and from the
\* state of the check boxes and radio buttons, which exist only for the
\* problems the report shows
on_apply(report, chk_dupes, chk_missing, method) ==
    (IF report.duplicates > 0
     THEN IF chk_dupes
          THEN ("remove_duplicates" :> TRUE) @@ ("duplicate_subset" :> report.subset_cols)
          ELSE ("remove_duplicates" :> FALSE)
     ELSE ("remove_duplicates" :> FALSE))
    @@
    (IF report.missing_count > 0
     THEN ("handle_missing" :> chk_missing) @@ ("missing_method" :> method)
     ELSE ("handle_missing" :> FALSE))

\* duplicates, a missing value and an ID column that repeats
MessyDataset ==
    Frame(<<ColId, ColVal>>, {ColId, ColVal},
          << <<Whole(1), Whole(10)>>, <<Whole(1), Whole(10)>>,
             <<Whole(2), NaN>>, <<Whole(2), Whole(10)>> >>)

\* the datasets DataLoader.load_file returns for the files of the session:
\* never empty, with a default RangeIndex
Files ==
    {EndToEndDataset, MessyDataset, TTestDataset, SkewedDataset}
    \cup {d \in GroupedDatasets : len(d) = 6}
    \cup {d \in WideDatasets : Len(d.columns) = 3}

\* the numeric columns in column order
numeric_cols_of(d) == SelectSeq(d.columns, LAMBDA c : c \in d.numeric)

\* the button was clicked in the main window
Clicked(btn) == pc = "main" /\ btn \in window.enabled

\* the handler returned without an engine call
Quiet(op, outcome) ==
    /\ call' = [op |-> op, outcome |-> outcome]
    /\ ret' = NoRet
    /\ pc' = "handled"
    /\ UNCHANGED <<heap, df, window>>

\* the handler made the engine call and showed its report in the result
\* view, unless shown is false
Analysed(op, engine, outcome, shown) ==
    /\ call' = [op |-> op, outcome |-> outcome.kind]
    /\ ret' = [op |-> engine, outcome |-> outcome]
    /\ window' = IF shown THEN [window EXCEPT !.result_view = "text"] ELSE window
    /\ pc' = "handled"
    /\ UNCHANGED <<heap, df>>

GuiInit ==
    /\ heap = <<>>
    /\ df = None
    /\ pc = "main"
    /\ call = NoCall
    /\ ret = NoRet
    /\ \E check_license \in BOOLEAN : window = MainWindow(check_license)

\* MainWindow.load_file: the file dialog cancelled, DataLoader.load_file
\* raising (file missing, unsupported or empty), or a dataset loaded
LoadFile ==
    /\ pc = "main"
    /\ \E outcome \in {"cancelled", "raised", "loaded"} :
         IF outcome = "loaded"
         THEN \E d \in Files :
                /\ df' = 1
                /\ heap' = (1 :> d)
                /\ window' = [window EXCEPT !.data_view = load_data(@, d),
                                            !.enabled = SidebarButtons]
                /\ call' = [op |-> "load_file", outcome |-> outcome]
                /\ ret' = [op |-> "DataLoader.load_file"]
                /\ pc' = "handled"
         ELSE Quiet("load_file", outcome)

\* MainWindow.show_activation_dialog, behind the button an unactivated
\* session has: the dialog accepted once LicenseManager.activate succeeded,
\* or rejected
ShowActivationDialog ==
    /\ pc = "main"
    /\ ~window.is_activated
    /\ \E outcome \in {"accepted", "rejected"} :
         Quiet("show_activation_dialog", outcome)

\* MainWindow.show_cleaning_dialog up to dialog.exec_()
ShowCleaningDialog ==
    /\ Clicked("btn_clean")
    /\ IF df = None THEN Quiet("show_cleaning_dialog", "no_data")
       ELSE IF ~check_pro_feature(window) THEN Quiet("show_cleaning_dialog", "pro_only")
       ELSE LET report == check_quality(heap[df])
                view1  == IF report.missing_indices # <<>>
                          THEN highlight_rows(window.data_view,
                                              report.missing_indices, "orange")
                          ELSE window.data_view
                view2  == IF report.duplicate_indices # <<>>
                          THEN highlight_rows(view1, report.duplicate_indices, "red")
                          ELSE view1
            IN  /\ window' = [window EXCEPT !.data_view = view2]
                /\ pc' = "cleaning_dialog"
                /\ call' = [op |-> "show_cleaning_dialog", outcome |-> "dialog",
                            report |-> report]
                /\ ret' = [op |-> "check_quality", report |-> report]
                /\ UNCHANGED <<heap, df>>

\* the dialog accepted: apply_cleaning raises, or self.df becomes the
\* dataset it returns and the data view is loaded again; the dataset
\* self.df referred to before is released, the store keeps the new one
CleaningAccepted ==
    /\ pc = "cleaning_dialog"
    /\ pc' = "handled"
    /\ \E chk_dupes, chk_missing, raised \in BOOLEAN,
          method \in {"mean", "median", "drop"} :
         LET config == on_apply(call.report, chk_dupes, chk_missing, method)
             r      == apply_cleaning(heap, df, config)
         IN  IF raised
             THEN /\ call' = [op |-> "show_cleaning_dialog", outcome |-> "raised",
                              report |-> call.report, config |-> config]
                  /\ ret' = [op |-> "apply_cleaning", raised |-> TRUE]
                  /\ UNCHANGED <<heap, df, window>>
             ELSE /\ df' = 1
                  /\ heap' = (1 :> r.heap[r.df_clean])
                  /\ window' = [window EXCEPT
                         !.data_view = load_data(@, r.heap[r.df_clean]),
                         !.result_view = "text"]
                  /\ call' = [op |-> "show_cleaning_dialog", outcome |-> "cleaned",
                              report |-> call.report, config |-> config]
                  /\ ret' = [op |-> "apply_cleaning", raised |-> FALSE,
                             logs |-> r.logs]

\* the dialog cancelled: the data view is loaded again
CleaningRejected ==
    /\ pc = "cleaning_dialog"
    /\ pc' = "handled"
    /\ window' = [window EXCEPT !.data_view = load_data(@, heap[df])]
    /\ call' = [op |-> "show_cleaning_dialog", outcome |-> "cancelled"]
    /\ ret' = NoRet
    /\ UNCHANGED <<heap, df>>

\* MainWindow.show_descriptive_stats: the text of
\* calculate_descriptive_stats, or its exception
ShowDescriptiveStats ==
    /\ Clicked("btn_desc")
    /\ IF df = None THEN Quiet("show_descriptive_stats", "no_data")
       ELSE \E kind \in {"report", "raised"} :
              Analysed("show_descriptive_stats", "calculate_descriptive_stats",
                       [kind |-> kind], kind = "report")

\* what a SelectionDialog ends with: cancelled, or two columns
Selections(d) ==
    {<<>>} \cup {<<d.columns[i], d.columns[j]>> : i, j \in 1..Len(d.columns)}

\* MainWindow.show_ttest_dialog
ShowTTestDialog ==
    /\ Clicked("btn_ttest")
    /\ IF df = None THEN Quiet("show_ttest_dialog", "no_data")
       ELSE \E cols \in Selections(heap[df]) :
              IF cols = <<>> THEN Quiet("show_ttest_dialog", "cancelled")
              ELSE IF cols[1] = cols[2] THEN Quiet("show_ttest_dialog", "same_column")
              ELSE \E p_lev, p_val \in PValues :
                   LET outcome == independent_ttest(heap[df], cols[1], cols[2],
                                                    p_lev, p_val)
                   IN  /\ outcome.kind = "report" =>
                             p_val \in ttest_ind(
                                 group_data(heap[df], cols[1], cols[2], outcome.groups[1]),
                                 group_data(heap[df], cols[1], cols[2], outcome.groups[2]),
                                 outcome.ttest_ind.equal_var, PValues)
                       /\ Analysed("show_ttest_dialog", "independent_ttest", outcome,
                                   outcome.kind # "raised")

\* MainWindow.show_anova_dialog
ShowAnovaDialog ==
    /\ Clicked("btn_anova")
    /\ IF df = None THEN Quiet("show_anova_dialog", "no_data")
       ELSE IF ~check_pro_feature(window) THEN Quiet("show_anova_dialog", "pro_only")
       ELSE \E cols \in Selections(heap[df]) :
              IF cols = <<>> THEN Quiet("show_anova_dialog", "cancelled")
              ELSE IF cols[1] = cols[2] THEN Quiet("show_anova_dialog", "same_column")
              ELSE \E p_lev, p_val \in PValues :
                   LET outcome == one_way_anova(heap[df], cols[1], cols[2],
                                                p_lev, p_val)
                   IN  Analysed("show_anova_dialog", "one_way_anova", outcome,
                                outcome.kind # "raised")

\* MainWindow.show_correlation_dialog
ShowCorrelationDialog ==
    /\ Clicked("btn_corr")
    /\ IF df = None THEN Quiet("show_correlation_dialog", "no_data")
       ELSE \E cols \in Selections(heap[df]) :
              IF cols = <<>> THEN Quiet("show_correlation_dialog", "cancelled")
              ELSE IF cols[1] = cols[2]
              THEN Quiet("show_correlation_dialog", "same_column")
              ELSE \E p1, p2 \in PValues \ {NaN}, res \in CorrelationResults :
                   LET outcome == correlation_analysis(heap[df], cols[1], cols[2],
                                                       p1, p2, res)
                   IN  Analysed("show_correlation_dialog", "correlation_analysis",
                                outcome, outcome.kind # "raised")

\* MainWindow.show_regression_dialog: simple_linear_regression returns its
\* report or the sample-size error, or raises
ShowRegressionDialog ==
    /\ Clicked("btn_reg")
    /\ IF df = None THEN Quiet("show_regression_dialog", "no_data")
       ELSE IF ~check_pro_feature(window)
       THEN Quiet("show_regression_dialog", "pro_only")
       ELSE \E cols \in Selections(heap[df]) :
              IF cols = <<>> THEN Quiet("show_regression_dialog", "cancelled")
              ELSE IF cols[1] = cols[2]
              THEN Quiet("show_regression_dialog", "same_column")
              ELSE IF cols[1] \notin heap[df].numeric \/ cols[2] \notin heap[df].numeric
              THEN Quiet("show_regression_dialog", "not_numeric")
              ELSE \E kind \in {"report", "error_sample", "raised"} :
                   Analysed("show_regression_dialog", "simple_linear_regression",
                            [kind |-> kind], kind = "report")

\* MainWindow.show_pca_dialog
ShowPCADialog ==
    /\ Clicked("btn_pca")
    /\ IF df = None THEN Quiet("show_pca_dialog", "no_data")
       ELSE IF ~check_pro_feature(window) THEN Quiet("show_pca_dialog", "pro_only")
       ELSE IF Len(numeric_cols_of(heap[df])) < 2
       THEN Quiet("show_pca_dialog", "too_few_numeric")
       ELSE \E cols \in {<<>>} \cup ColSubsets(numeric_cols_of(heap[df])),
               accepted \in BOOLEAN :
              IF ~accepted THEN Quiet("show_pca_dialog", "cancelled")
              ELSE IF Len(cols) < 2 THEN Quiet("show_pca_dialog", "too_few_selected")
              ELSE LET outcome == run_pca_analysis(heap[df], cols)
                   IN  Analysed("show_pca_dialog", "run_pca_analysis", outcome,
                                outcome.kind = "report")

\* MainWindow.show_kmeans_dialog
ShowKMeansDialog ==
    /\ Clicked("btn_kmeans")
    /\ IF df = None THEN Quiet("show_kmeans_dialog", "no_data")
       ELSE IF ~check_pro_feature(window) THEN Quiet("show_kmeans_dialog", "pro_only")
       ELSE IF Len(numeric_cols_of(heap[df])) < 2
       THEN Quiet("show_kmeans_dialog", "too_few_numeric")
       ELSE \E cols \in {<<>>} \cup ColSubsets(numeric_cols_of(heap[df])),
               k \in Ks, accepted \in BOOLEAN :
              IF ~accepted THEN Quiet("show_kmeans_dialog", "cancelled")
              ELSE IF Len(cols) < 1 THEN Quiet("show_kmeans_dialog", "none_selected")
              ELSE \E labels \in Labelings(data_raw_of(heap[df], cols), k) :
                     LET r == run_kmeans_clustering(heap, df, cols, k, labels)
                     IN  Analysed("show_kmeans_dialog", "run_kmeans_clustering",
                                  [kind   |-> IF r.error THEN "error_sample" ELSE "report",
                                   counts |-> r.counts],
                                  ~r.error)

\* MainWindow.export_report: nothing to export, the file dialog cancelled,
\* or the text written to the file chosen (or the write raising)
ExportReport ==
    /\ Clicked("btn_export")
    /\ IF ~check_pro_feature(window) THEN Quiet("export_report", "pro_only")
       ELSE IF window.result_view = "" THEN Quiet("export_report", "nothing")
       ELSE \E outcome \in {"cancelled", "written", "raised"} :
              IF outcome = "cancelled" THEN Quiet("export_report", outcome)
              ELSE /\ call' = [op |-> "export_report", outcome |-> outcome]
                   /\ ret' = [op |-> "write", content |-> window.result_view]
                   /\ pc' = "handled"
                   /\ UNCHANGED <<heap, df, window>>

\* the handler returns to the event loop
HandlerReturns ==
    /\ pc = "handled"
    /\ pc' = "main"
    /\ call' = NoCall
    /\ ret' = NoRet
    /\ UNCHANGED <<heap, df, window>>

GuiNext ==
    \/ LoadFile
    \/ ShowActivationDialog
    \/ ShowCleaningDialog
    \/ CleaningAccepted
    \/ CleaningRejected
    \/ ShowDescriptiveStats
    \/ ShowTTestDialog
    \/ ShowAnovaDialog
    \/ ShowCorrelationDialog
    \/ ShowRegressionDialog
    \/ ShowPCADialog
    \/ ShowKMeansDialog
    \/ ExportReport
    \/ HandlerReturns

GuiSpec == GuiInit /\ [][GuiNext]_vars

\* ------------------------------------------------------------ properties
Returned(op) == pc = "returned" /\ call.op = op

\* the dataset passed to the call, the dataset apply_cleaning returned, its config
In  == heap[df]
Out == heap[ret.df_clean]
Cfg == call.config

DedupOn    == "remove_duplicates" \in DOMAIN Cfg /\ Cfg["remove_duplicates"]
MissingOn  == "handle_missing" \in DOMAIN Cfg /\ Cfg["handle_missing"]
SubsetUsed == IF "duplicate_subset" \in DOMAIN Cfg THEN Cfg["duplicate_subset"]
              ELSE In.columns
Method     == IF "missing_method" \in DOMAIN Cfg THEN Cfg["missing_method"] ELSE "mean"

\* rows i and j of d hold equal cells in every column of cols
AgreeOn(d, cols, i, j) ==
    \A k \in 1..Len(cols) :
        \E p \in 1..Len(d.columns) :
            d.columns[p] = cols[k] /\ d.data[i][p] = d.data[j][p]

\* the positions of the rows no earlier row agrees with
FirstPositions(d, cols) ==
    {i \in 1..len(d) : \A j \in 1..(i - 1) : ~AgreeOn(d, cols, j, i)}

\* the number of groups of rows equal on cols
GroupCount(d, cols) ==
    Cardinality({ {j \in 1..len(d) : AgreeOn(d, cols, i, j)} : i \in 1..len(d) })

NthOf(S, k) == CHOOSE x \in S : Cardinality({y \in S : y < x}) = k - 1

\* the rows of d at the positions S, in order
RowsAt(d, S) == [k \in 1..Cardinality(S) |-> d.data[NthOf(S, k)]]

\* the rows left once duplicates are removed as the config asks
AfterDedup ==
    IF DedupOn THEN RowsAt(In, FirstPositions(In, SubsetUsed)) ELSE In.data

NullFree(row) == \A j \in 1..Len(row) : ~row[j].isnull

InSeq(x, s) == \E k \in 1..Len(s) : s[k] = x

\* C1: check_quality flags every row of a group of two or more rows equal on
\* subset_cols, never a row that agrees with no other row, and 'duplicates'
\* is the length of duplicate_indices.
C1_DuplicatesSymmetric ==
    Returned("check_quality") =>
        LET rep  == ret.report
            cols == rep.subset_cols
        IN  /\ \A i, j \in 1..len(In) :
                   (i # j /\ AgreeOn(In, cols, i, j)) =>
                       /\ InSeq(In.index[i], rep.duplicate_indices)
                       /\ InSeq(In.index[j], rep.duplicate_indices)
            /\ \A i \in 1..len(In) :
                   (\A j \in 1..len(In) : j # i => ~AgreeOn(In, cols, i, j)) =>
                       ~InSeq(In.index[i], rep.duplicate_indices)
            /\ rep.duplicates = Len(rep.duplicate_indices)

C1_Witness ==
    /\ Returned("check_quality")
    /\ ret.report.duplicates >= 2
    /\ ret.report.duplicates < ret.report.n_rows

\* the column names of the datasets that contain 'id', U+7F16 U+53F7 or
\* U+5E8F U+53F7 once lower-cased
IdLikeNames == {ColId, ColUserID, ColXuhao, ColBianhao}

\* column p of d is ID-like and holds no value twice
LooksLikeKey(d, p) ==
    /\ d.columns[p] \in IdLikeNames
    /\ Cardinality({d.data[i][p] : i \in 1..len(d)}) = len(d)

\* C2: subset_cols is the columns without the ID-like columns of distinct
\* values, in column order; all columns when that leaves none; never empty.
C2_SubsetCols ==
    Returned("check_quality") =>
        LET cols == ret.report.subset_cols
            kept == {p \in 1..Len(In.columns) : ~LooksLikeKey(In, p)}
        IN  /\ cols # <<>>
            /\ IF kept = {} THEN cols = In.columns
               ELSE cols = [k \in 1..Cardinality(kept) |-> In.columns[NthOf(kept, k)]]

C2_Witness ==
    /\ Returned("check_quality")
    /\ Len(ret.report.subset_cols) < Len(In.columns)
    /\ len(In) >= 2

\* the ID heuristic would exclude every column, and all columns are returned
C2_FallbackReached ==
    /\ Returned("check_quality")
    /\ len(In) >= 2
    /\ \A p \in 1..Len(In.columns) : LooksLikeKey(In, p)
    /\ ret.report.subset_cols = In.columns

\* C3 as stated: on the end-to-end dataset subset_cols is ["val"], rows 0
\* and 1 are flagged, and removing duplicates on ["val"] leaves 2 rows.
C3_AsStated ==
    In = EndToEndDataset =>
        /\ Returned("check_quality") =>
              /\ ret.report.subset_cols = <<ColVal>>
              /\ ret.report.duplicate_indices = <<0, 1>>
        /\ (Returned("apply_cleaning") /\ DedupOn /\ ~MissingOn
               /\ SubsetUsed = <<ColVal>>) => len(Out) = 2

\* C3 amended: on the end-to-end dataset the id column holds 1 twice and
\* stays in subset_cols = ["id", "val"]; rows 0 and 1 are flagged, and
\* removing duplicates on that subset leaves the 2 rows (1,10), (2,20).
C3_EndToEnd ==
    In = EndToEndDataset =>
        /\ Returned("check_quality") =>
              /\ ret.report.subset_cols = <<ColId, ColVal>>
              /\ ret.report.duplicate_indices = <<0, 1>>
              /\ ret.report.duplicates = 2
        /\ (Returned("apply_cleaning") /\ DedupOn /\ ~MissingOn
               /\ "duplicate_subset" \in DOMAIN Cfg
               /\ SubsetUsed = <<ColId, ColVal>>) =>
              Out.data = << <<Whole(1), Whole(10)>>, <<Whole(2), Whole(20)>> >>

C3_Witness ==
    /\ In = EndToEndDataset
    /\ Returned("apply_cleaning") /\ DedupOn /\ ~MissingOn
    /\ "duplicate_subset" \in DOMAIN Cfg
    /\ SubsetUsed = <<ColId, ColVal>>
    /\ len(Out) = 2

\* C4: with remove_duplicates the first row of every group of rows equal
\* on the subset is kept, in order, and the others are dropped: the row
\* count falls by (row count - number of groups) and no two rows left agree.
C4_KeepFirst ==
    (Returned("apply_cleaning") /\ DedupOn) =>
        LET groups == GroupCount(In, SubsetUsed)
        IN  /\ (~MissingOn \/ Method # "drop") =>
                   len(In) - len(Out) = len(In) - groups
            /\ ~MissingOn =>
                   /\ Out.data = RowsAt(In, FirstPositions(In, SubsetUsed))
                   /\ \A i, j \in 1..len(Out) :
                          AgreeOn(Out, SubsetUsed, i, j) => i = j
            /\ len(In) > groups =>
                   /\ ret.logs # <<>>
                   /\ ret.logs[1].kind = "drop_duplicates"
                   /\ ret.logs[1].n = len(In) - groups

C4_Witness ==
    /\ Returned("apply_cleaning") /\ DedupOn /\ ~MissingOn
    /\ len(Out) < len(In)
    /\ len(Out) >= 2
    /\ Out.data[1] # In.data[len(In)]

\* the rows of a sequence of rows that hold no null, in order
NullFreeRows(rows) ==
    LET S == {i \in 1..Len(rows) : NullFree(rows[i])}
    IN  [k \in 1..Cardinality(S) |-> rows[NthOf(S, k)]]

\* the sum of the non-null whole numbers of column p
RECURSIVE ColSum(_, _, _)
ColSum(rows, p, i) ==
    IF i > Len(rows) THEN 0
    ELSE (IF rows[i][p].isnull THEN 0 ELSE rows[i][p].num) + ColSum(rows, p, i + 1)

Present(rows, p) == {i \in 1..Len(rows) : ~rows[i][p].isnull}

\* x is the arithmetic mean of the non-null whole numbers of column p
IsMean(x, rows, p) ==
    /\ ~x.isnull
    /\ Present(rows, p) # {}
    /\ x.num * Cardinality(Present(rows, p)) = x.den * ColSum(rows, p, 1)

\* x is the median of the non-null numbers of column p: the middle value,
\* or the midpoint of the two middle values
IsMedian(x, rows, p) ==
    LET S  == Present(rows, p)
        n  == Cardinality(S)
        lt(y) == Cardinality({i \in S : Less(rows[i][p], y)})
        gt(y) == Cardinality({i \in S : Less(y, rows[i][p])})
    IN  /\ ~x.isnull
        /\ n > 0
        /\ \/ (\E i \in S : rows[i][p] = x) /\ 2 * lt(x) < n /\ 2 * gt(x) < n
           \/ \E i, j \in S :
                 /\ Less(rows[i][p], rows[j][p])
                 /\ 2 * (n - gt(rows[i][p])) = n
                 /\ 2 * (n - lt(rows[j][p])) = n
                 /\ 2 * x.num * rows[i][p].den * rows[j][p].den =
                       x.den * (rows[i][p].num * rows[j][p].den
                                + rows[j][p].num * rows[i][p].den)

\* x is a value of column p that no other value occurs more often than
IsMostFrequent(x, rows, p) ==
    LET S       == Present(rows, p)
        Freq(y) == Cardinality({i \in S : rows[i][p] = y})
    IN  /\ \E i \in S : rows[i][p] = x
        /\ \A i \in S : Freq(rows[i][p]) <= Freq(x)

\* x is what the nulls of column p are to be filled with
ExpectedFill(x, rows, p) ==
    IF In.columns[p] \in In.numeric
    THEN IF Method = "mean" THEN IsMean(x, rows, p) ELSE IsMedian(x, rows, p)
    ELSE IF Present(rows, p) # {} THEN IsMostFrequent(x, rows, p)
         ELSE x = Str("Unknown")

\* C5: duplicates are removed first, missing values are handled on what is
\* left (rows are dropped or statistics are taken after de-duplication, and
\* rows that agree only once filled both stay), and the row index of the
\* result is 0..n-1 whichever operation ran.
C5_FixedOrder ==
    Returned("apply_cleaning") =>
        LET base == AfterDedup
        IN  /\ Out.index = [i \in 1..len(Out) |-> i - 1]
            /\ ~MissingOn => Out.data = base
            /\ (MissingOn /\ Method = "drop") => Out.data = NullFreeRows(base)
            /\ (MissingOn /\ Method # "drop") =>
                   /\ len(Out) = Len(base)
                   /\ \A i \in 1..Len(base), p \in 1..Len(In.columns) :
                          /\ ~base[i][p].isnull => Out.data[i][p] = base[i][p]
                          /\ (base[i][p].isnull /\ Present(base, p) # {}) =>
                                 ExpectedFill(Out.data[i][p], base, p)

\* a row was dropped as a duplicate and two rows of the result agree on
\* the subset since a null was filled afterwards
C5_Witness ==
    /\ Returned("apply_cleaning") /\ DedupOn /\ MissingOn /\ Method # "drop"
    /\ Len(ret.logs) = 2
    /\ \E i, j \in 1..len(Out) : i # j /\ AgreeOn(Out, SubsetUsed, i, j)

\* C6: with handle_missing and method 'drop' the result holds no null and
\* is the rows without a null of the (de-duplicated) data, in order.
C6_DropNulls ==
    (Returned("apply_cleaning") /\ MissingOn /\ Method = "drop") =>
        /\ \A i \in 1..len(Out), p \in 1..Len(Out.columns) : ~Out.data[i][p].isnull
        /\ Len(Out.columns) = Len(In.columns)
        /\ LET S == {i \in 1..Len(AfterDedup) :
                        \A p \in 1..Len(In.columns) : ~AfterDedup[i][p].isnull}
           IN  /\ len(Out) = Cardinality(S)
               /\ \A k \in 1..Cardinality(S) : Out.data[k] = AfterDedup[NthOf(S, k)]

C6_Witness ==
    /\ Returned("apply_cleaning") /\ MissingOn /\ Method = "drop"
    /\ len(Out) > 0
    /\ len(Out) < Len(AfterDedup)

\* C7: no call changes the dataset it was given: the object the caller's
\* reference points to holds the same rows, cells, columns and index after
\* every step.
C7_InputUntouched == [][heap'[df'] = heap[df]]_vars

\* apply_cleaning returned a dataset other than the one it was given
C7_Witness ==
    /\ Returned("apply_cleaning")
    /\ ret.df_clean # df
    /\ Out.data # In.data

C7_WitnessKMeans ==
    /\ Returned("run_kmeans_clustering")
    /\ ~ret.error
    /\ heap[ret.result_df].columns # In.columns

\* C8 as stated: the log holds one record per change performed, duplicates
\* before missing values, and is empty when the result has the rows and
\* cells of the input.
C8_AsStated ==
    Returned("apply_cleaning") =>
        LET base     == AfterDedup
            dupDone  == Len(base) < len(In)
            missDone == /\ MissingOn
                        /\ \E i \in 1..Len(base) : ~NullFree(base[i])
            kinds    == [k \in 1..Len(ret.logs) |-> ret.logs[k].kind]
        IN  /\ kinds = (IF dupDone THEN <<"drop_duplicates">> ELSE <<>>)
                       \o (IF missDone
                           THEN <<IF Method = "drop" THEN "dropna" ELSE "fillna">>
                           ELSE <<>>)
            /\ Out.data = In.data => ret.logs = <<>>

\* C9: a config with neither remove_duplicates nor handle_missing, whatever
\* else it holds, gives back the rows and cells of the input in order and
\* an empty log.
C9_AbsentKeysNoOp ==
    (Returned("apply_cleaning")
        /\ "remove_duplicates" \notin DOMAIN Cfg
        /\ "handle_missing" \notin DOMAIN Cfg) =>
        /\ Out.data = In.data
        /\ Out.columns = In.columns
        /\ ret.logs = <<>>

\* such a config with other keys, on a dataset with duplicates and a null
C9_Witness ==
    /\ Returned("apply_cleaning")
    /\ "remove_duplicates" \notin DOMAIN Cfg
    /\ "handle_missing" \notin DOMAIN Cfg
    /\ {"duplicate_subset", "encoding"} \subseteq DOMAIN Cfg
    /\ GroupCount(In, In.columns) < len(In)
    /\ \E i \in 1..len(In) : ~NullFree(In.data[i])
    /\ Out.data = In.data

\* C10 as stated: with method mean or median every null becomes the mean
\* (median) of its numeric column, the most frequent value of its
\* non-numeric column or 'Unknown' when that column is all null; no null
\* is left in a filled column; row count and non-null cells are unchanged.
C10_AsStated ==
    (Returned("apply_cleaning") /\ MissingOn /\ Method \in {"mean", "median"}) =>
        LET base == AfterDedup
        IN  /\ len(Out) = Len(base)
            /\ \A i \in 1..Len(base), p \in 1..Len(In.columns) :
                   /\ ~base[i][p].isnull => Out.data[i][p] = base[i][p]
                   /\ base[i][p].isnull =>
                          /\ ~Out.data[i][p].isnull
                          /\ ExpectedFill(Out.data[i][p], base, p)

\* ------------------------------------------------------------ outliers
\* the whole numbers at the positions S of column p of d, ascending
RECURSIVE Ascending(_, _, _)
Ascending(d, p, S) ==
    IF S = {} THEN <<>>
    ELSE LET m == CHOOSE i \in S : \A j \in S : d.data[i][p].num <= d.data[j][p].num
         IN  <<d.data[m][p].num>> \o Ascending(d, p, S \ {m})

\* four times the quartile q (1 or 3) of the ascending values s, by linear
\* interpolation at position (n - 1) * q / 4
QuartileTimes4(s, q) ==
    LET h  == (Len(s) - 1) * q
        lo == h \div 4
        r  == h % 4
    IN  IF r = 0 THEN 4 * s[lo + 1]
        ELSE (4 - r) * s[lo + 1] + r * s[lo + 2]

\* v < Q1 - 1.5 * IQR or v > Q3 + 1.5 * IQR, every term times 8
BeyondFences(v, s) ==
    LET q1x4 == QuartileTimes4(s, 1)
        q3x4 == QuartileTimes4(s, 3)
    IN  \/ 8 * v < 2 * q1x4 - 3 * (q3x4 - q1x4)
        \/ 8 * v > 2 * q3x4 + 3 * (q3x4 - q1x4)

\* the number of outliers among the non-null values of column p of d
OutlierCount(d, p) ==
    LET S == {i \in 1..len(d) : ~d.data[i][p].isnull}
        s == Ascending(d, p, S)
    IN  Cardinality({i \in S : BeyondFences(d.data[i][p].num, s)})

\* C11: in the report of check_quality a numeric column with one or more
\* values below Q1 - 1.5 IQR or above Q3 + 1.5 IQR (quartiles of that column
\* alone, linear interpolation) has exactly one entry in 'outliers', the
\* number of such values; a numeric column without such a value and a
\* non-numeric column have no entry.
C11_OutlierCounts ==
    Returned("check_quality") =>
        /\ \A e \in ret.report.outliers : InSeq(e[1], In.columns)
        /\ \A p \in 1..Len(In.columns) :
              LET col     == In.columns[p]
                  entries == {e \in ret.report.outliers : e[1] = col}
              IN  IF col \in In.numeric /\ OutlierCount(In, p) > 0
                  THEN entries = {<<col, OutlierCount(In, p)>>}
                  ELSE entries = {}

\* a report with an entry for one numeric column and none for another
\* numeric column and for a text column
C11_Witness ==
    /\ Returned("check_quality")
    /\ \E e \in ret.report.outliers : e[2] >= 1
    /\ \E p \in 1..Len(In.columns) :
          /\ In.columns[p] \in In.numeric
          /\ \A e \in ret.report.outliers : e[1] # In.columns[p]
    /\ \E p \in 1..Len(In.columns) : In.columns[p] \notin In.numeric

\* ------------------------------------------------------- analysis calls
\* what the analysis call returned
Outcome == ret.outcome

\* the distinct non-null values of column col of d
DistinctValues(d, col) ==
    {d.data[i][p] : i \in 1..len(d), p \in {q \in 1..Len(d.columns) : d.columns[q] = col}}
        \ {NaN}

\* the number of rows of d with group label g and a value in column col
Observations(d, group_col, col, g) ==
    Cardinality({i \in 1..len(d) :
        \E p, q \in 1..Len(d.columns) :
            /\ d.columns[p] = group_col /\ d.data[i][p] = g
            /\ d.columns[q] = col /\ ~d.data[i][q].isnull})

\* C12: independent_ttest returns the invalid-group-count error, with the
\* number of groups found and without any statistic, exactly when the
\* grouping column does not hold two distinct non-null values (0, 1, 3 or
\* more).
C12_TwoGroupsOnly ==
    Returned("independent_ttest") =>
        LET n == Cardinality(DistinctValues(In, call.group_col))
        IN  /\ Outcome.kind = "error_group_count" <=> n # 2
            /\ n # 2 => /\ Outcome.n_groups = n
                        /\ DOMAIN Outcome = {"kind", "n_groups", "groups"}

\* a grouping column with three groups is turned down with the count 3
C12_Witness ==
    /\ Returned("independent_ttest")
    /\ Cardinality(DistinctValues(In, call.group_col)) = 3
    /\ Outcome.kind = "error_group_count"
    /\ Outcome.n_groups = 3

\* a grouping column without any value is turned down with the count 0
C12_WitnessNoGroup ==
    /\ Returned("independent_ttest")
    /\ len(In) > 0
    /\ DistinctValues(In, call.group_col) = {}
    /\ Outcome.kind = "error_group_count"
    /\ Outcome.n_groups = 0

\* the number of rows of d without a null in any of the columns cols
UsableRows(d, cols) ==
    Cardinality({i \in 1..len(d) :
        \A k \in 1..Len(cols) :
            \E p \in 1..Len(d.columns) : d.columns[p] = cols[k] /\ ~d.data[i][p].isnull})

\* some group of the grouping column has fewer than 2 values in the value column
SomeSmallGroup ==
    \E g \in DistinctValues(In, call.group_col) :
        Observations(In, call.group_col, call.value_col, g) < 2

\* C13: a call that passed the earlier checks returns the insufficient-sample
\* error exactly when its usable sample is below the minimum: a group with
\* fewer than 2 values (independent_ttest with 2 groups, one_way_anova with 3
\* or more), fewer than 2 null-free rows (run_pca_analysis), fewer than k
\* (run_kmeans_clustering), fewer than 3 pairs (correlation_analysis).
C13_SampleMinimum ==
    /\ Returned("independent_ttest")
          /\ Cardinality(DistinctValues(In, call.group_col)) = 2
        => (Outcome.kind = "error_sample" <=> SomeSmallGroup)
    /\ Returned("one_way_anova")
          /\ Cardinality(DistinctValues(In, call.group_col)) >= 3
        => (Outcome.kind = "error_sample" <=> SomeSmallGroup)
    /\ Returned("run_pca_analysis")
        => (Outcome.kind = "error_sample" <=> UsableRows(In, call.columns) < 2)
    /\ Returned("run_kmeans_clustering")
        => (ret.error <=> UsableRows(In, call.columns) < call.k)
    /\ Returned("correlation_analysis")
        => (Outcome.kind = "error_sample"
              <=> UsableRows(In, <<call.var1_col, call.var2_col>>) < 3)

\* run_pca_analysis on exactly 2 usable rows went past the sample check
C13_Witness ==
    /\ Returned("run_pca_analysis")
    /\ UsableRows(In, call.columns) = 2
    /\ Outcome.kind = "report"

\* the error of each procedure, one row or one value below its minimum
C13_WitnessPCA ==
    /\ Returned("run_pca_analysis")
    /\ UsableRows(In, call.columns) = 1
    /\ Outcome.kind = "error_sample"

C13_WitnessTTest ==
    /\ Returned("independent_ttest")
    /\ Cardinality(DistinctValues(In, call.group_col)) = 2
    /\ \E g \in DistinctValues(In, call.group_col) :
          Observations(In, call.group_col, call.value_col, g) = 1
    /\ Outcome.kind = "error_sample"

C13_WitnessAnova ==
    /\ Returned("one_way_anova")
    /\ Cardinality(DistinctValues(In, call.group_col)) = 3
    /\ SomeSmallGroup
    /\ Outcome.kind = "error_sample"

C13_WitnessKMeans ==
    /\ Returned("run_kmeans_clustering")
    /\ UsableRows(In, call.columns) = call.k - 1
    /\ ret.error

C13_WitnessCorrelation ==
    /\ Returned("correlation_analysis")
    /\ UsableRows(In, <<call.var1_col, call.var2_col>>) = 2
    /\ Outcome.kind = "error_sample"

\* each procedure at its minimum, without the error
C13_WitnessAtMinimum ==
    \/ /\ Returned("independent_ttest")
       /\ Outcome.kind = "report" /\ Outcome.n = <<2, 2>>
    \/ /\ Returned("correlation_analysis")
       /\ UsableRows(In, <<call.var1_col, call.var2_col>>) = 3
       /\ Outcome.kind # "error_sample"

\* the call is one of the five analysis procedures
AnalysisReturned ==
    \/ Returned("independent_ttest")
    \/ Returned("one_way_anova")
    \/ Returned("correlation_analysis")
    \/ Returned("run_pca_analysis")
    \/ Returned("run_kmeans_clustering")

\* a text column was given where the procedure needs numbers
TextColumnGiven ==
    \/ /\ call.op \in {"independent_ttest", "one_way_anova"}
       /\ call.value_col \notin In.numeric
    \/ /\ call.op = "correlation_analysis"
       /\ (call.var1_col \notin In.numeric \/ call.var2_col \notin In.numeric)
    \/ /\ call.op \in {"run_pca_analysis", "run_kmeans_clustering"}
       /\ \E k \in 1..Len(call.columns) : call.columns[k] \notin In.numeric

\* the call ended in an exception
Raised ==
    call.op # "run_kmeans_clustering" /\ Outcome.kind = "raised"

\* C14: an analysis call given a text column where numbers are needed (as
\* one given a wrong number of groups or a too small sample) returns a
\* report-level message and never ends in an exception.
C14_AsStated ==
    AnalysisReturned /\ TextColumnGiven => ~Raised

\* the text columns that do end in an exception: those of a call that passed
\* the group and sample checks of independent_ttest or one_way_anova
C14_RaisedOnlyPastChecks ==
    AnalysisReturned /\ TextColumnGiven /\ Raised =>
        /\ call.op \in {"independent_ttest", "one_way_anova"}
        /\ ~SomeSmallGroup
        /\ call.op = "independent_ttest"
              => Cardinality(DistinctValues(In, call.group_col)) = 2
        /\ call.op = "one_way_anova"
              => Cardinality(DistinctValues(In, call.group_col)) >= 3

\* C15 as stated: with a text column, correlation_analysis returns the type
\* error whatever the number of rows.
C15_AsStated ==
    Returned("correlation_analysis") /\ TextColumnGiven
        => Outcome.kind = "error_type"

\* C15: with a text column, correlation_analysis returns the type error,
\* naming the two columns' types, when there are 3 or more rows without a
\* null in the two columns, and the sample-size error when there are fewer;
\* no coefficient is computed in either case, and the type error is returned
\* for no other input.
C15_TypeErrorFromThreeRows ==
    Returned("correlation_analysis") =>
        LET n == UsableRows(In, <<call.var1_col, call.var2_col>>)
        IN  /\ TextColumnGiven /\ n >= 3 =>
                  /\ Outcome.kind = "error_type"
                  /\ Outcome.types = <<call.var1_col \in In.numeric,
                                       call.var2_col \in In.numeric>>
            /\ TextColumnGiven /\ n < 3 => Outcome.kind = "error_sample"
            /\ TextColumnGiven => "computed" \notin DOMAIN Outcome
            /\ Outcome.kind = "error_type" => TextColumnGiven

\* a text column with 3 usable rows gets the type error
C15_Witness ==
    /\ Returned("correlation_analysis")
    /\ TextColumnGiven
    /\ UsableRows(In, <<call.var1_col, call.var2_col>>) = 3
    /\ Outcome.kind = "error_type"

\* a text column with 2 usable rows gets the sample-size error
C15_WitnessFewRows ==
    /\ Returned("correlation_analysis")
    /\ TextColumnGiven
    /\ UsableRows(In, <<call.var1_col, call.var2_col>>) = 2
    /\ Outcome.kind = "error_sample"

\* C16: a report of independent_ttest names the classic test exactly when
\* Levene's p is above 0.05, Welch's test otherwise (p equal to 0.05, below
\* it, or NaN), and the test named is the one ttest_ind was asked for.
C16_VariantByLevene ==
    Returned("independent_ttest") /\ Outcome.kind = "report" =>
        LET p == Outcome.p_lev
            above == ~p.isnull /\ p.num * 20 > p.den
        IN  /\ Outcome.test_name = "standard" <=> above
            /\ Outcome.test_name = "welch" <=> ~above
            /\ Outcome.ttest_ind.equal_var <=> Outcome.test_name = "standard"

\* Levene's p is exactly 0.05 and the report names Welch's test
C16_Witness ==
    /\ Returned("independent_ttest")
    /\ Outcome.kind = "report"
    /\ Outcome.p_lev = Num(5, 100)
    /\ Outcome.test_name = "welch"
    /\ ~Outcome.ttest_ind.equal_var

\* Levene's p is above 0.05 and the report names the classic test
C16_WitnessClassic ==
    /\ Returned("independent_ttest")
    /\ Outcome.kind = "report"
    /\ Outcome.p_lev = Num(1, 2)
    /\ Outcome.test_name = "standard"

\* C17: a report of correlation_analysis on n pairs tested each variable
\* with Shapiro-Wilk when n <= 50 and Kolmogorov-Smirnov when n > 50, took
\* it for normal exactly when the test's p is above 0.05, computed Pearson's
\* r exactly when both are normal and Spearman's otherwise, and names the
\* method it computed.
C17_NormalityAndMethod ==
    Returned("correlation_analysis") /\ Outcome.kind = "report" =>
        LET n == UsableRows(In, <<call.var1_col, call.var2_col>>)
            bothNormal == \A k \in 1..2 : Outcome.norm[k].normal
        IN  /\ Outcome.n = n
            /\ \A k \in 1..2 :
                  /\ n <= 50 => Outcome.norm[k].test = "shapiro"
                  /\ n > 50 => Outcome.norm[k].test = "kstest"
                  /\ Outcome.norm[k].normal
                        <=> Outcome.norm[k].p.num * 20 > Outcome.norm[k].p.den
            /\ bothNormal => Outcome.computed = "pearsonr" /\ Outcome.method_name = "Pearson"
            /\ ~bothNormal => Outcome.computed = "spearmanr" /\ Outcome.method_name = "Spearman"

\* 51 pairs, tested with Kolmogorov-Smirnov, both normal, Pearson
C17_Witness ==
    /\ Returned("correlation_analysis")
    /\ Outcome.kind = "report"
    /\ Outcome.n = 51
    /\ Outcome.norm[1].test = "kstest"
    /\ Outcome.norm[1].normal /\ Outcome.norm[2].normal
    /\ Outcome.method_name = "Pearson"

\* 51 rows of which 50 are pairs, tested with Shapiro-Wilk, one variable not
\* normal, Spearman
C17_WitnessShapiro ==
    /\ Returned("correlation_analysis")
    /\ Outcome.kind = "report"
    /\ len(In) = 51 /\ Outcome.n = 50
    /\ Outcome.norm[1].test = "shapiro"
    /\ Outcome.norm[1].normal /\ ~Outcome.norm[2].normal
    /\ Outcome.method_name = "Spearman"

\* C18: one_way_anova returns the hint recommending the t-test, with the
\* number of groups found and nothing else, exactly when the grouping column
\* holds fewer than 3 distinct non-null values, whether or not a group has
\* fewer than 2 values.
C18_HintBelowThreeGroups ==
    Returned("one_way_anova") =>
        LET n == Cardinality(DistinctValues(In, call.group_col))
        IN  /\ Outcome.kind = "hint_use_ttest" <=> n < 3
            /\ n < 3 => /\ Outcome.n_groups = n
                        /\ DOMAIN Outcome = {"kind", "n_groups"}

\* two groups of which one has a single value: the hint, not the sample error
C18_Witness ==
    /\ Returned("one_way_anova")
    /\ Cardinality(DistinctValues(In, call.group_col)) = 2
    /\ SomeSmallGroup
    /\ Outcome.kind = "hint_use_ttest"
    /\ Outcome.n_groups = 2

\* the first row of d with group label g
FirstRowOf(d, group_col, g) ==
    CHOOSE i \in 1..len(d) :
        /\ Column(d, group_col)[i] = g
        /\ \A j \in 1..(i - 1) : Column(d, group_col)[j] # g

\* the groups with fewer than 2 values in the value column
SmallGroups ==
    {g \in DistinctValues(In, call.group_col) :
        Observations(In, call.group_col, call.value_col, g) < 2}

\* C19: with 3 or more groups of which some has fewer than 2 values,
\* one_way_anova returns the insufficient-sample error naming a group that
\* has fewer than 2 values, the one of them that appears first in the
\* grouping column.
C19_FirstSmallGroupNamed ==
    /\ Returned("one_way_anova")
    /\ Cardinality(DistinctValues(In, call.group_col)) >= 3
    /\ SmallGroups # {}
    => /\ Outcome.kind = "error_sample"
       /\ Outcome.group \in SmallGroups
       /\ \A g \in SmallGroups :
             FirstRowOf(In, call.group_col, Outcome.group)
                <= FirstRowOf(In, call.group_col, g)

\* groups b, a, c in that order, b and a too small: b is named
C19_Witness ==
    /\ Returned("one_way_anova")
    /\ Outcome.kind = "error_sample"
    /\ Outcome.group = Str("b")
    /\ Str("a") \in SmallGroups
    /\ FirstRowOf(In, call.group_col, Str("b")) < FirstRowOf(In, call.group_col, Str("a"))

\* a later group is named although the first group is large enough
C19_WitnessLaterGroup ==
    /\ Returned("one_way_anova")
    /\ Outcome.kind = "error_sample"
    /\ \E g \in DistinctValues(In, call.group_col) \ SmallGroups :
          FirstRowOf(In, call.group_col, g) < FirstRowOf(In, call.group_col, Outcome.group)

\* the omnibus p of a report is below 0.05
OmnibusSignificant ==
    ~Outcome.p_val.isnull /\ Outcome.p_val.num * 20 < Outcome.p_val.den

C20_WitnessSignificant ==
    /\ Returned("one_way_anova")
    /\ Outcome.kind = "report"
    /\ Outcome.p_val = Num(1, 100)
    /\ Outcome.posthoc = "tukey_table"

\* ------------------------------------------------------------------ PCA
\* the smaller of the number of selected columns and 5
DefaultComponents == IF Len(call.columns) < 5 THEN Len(call.columns) ELSE 5

\* the three results of run_pca_analysis hold c components each
HasComponents(c) ==
    /\ Outcome.kind = "report"
    /\ Outcome.pca_df.columns = c
    /\ Outcome.variance_ratio = c
    /\ Outcome.components_df.columns = c

\* C21 as stated: on 2 or more usable rows run_pca_analysis returns
\* min(number of selected columns, 5) components in the coordinates table,
\* the variance ratios and the loadings table.
C21_AsStated ==
    Returned("run_pca_analysis") /\ UsableRows(In, call.columns) >= 2
        => HasComponents(DefaultComponents)

\* the same with as many usable rows as components asked for
C21_EnoughRows ==
    Returned("run_pca_analysis") /\ UsableRows(In, call.columns) >= DefaultComponents
                                 /\ UsableRows(In, call.columns) >= 2
        => HasComponents(DefaultComponents)

\* six columns selected, five components returned
C21_FiveOfSix ==
    /\ Returned("run_pca_analysis")
    /\ Len(call.columns) = 6
    /\ HasComponents(5)

\* -------------------------------------------------------------- K-means
\* the positions of the rows of d without a null in the columns cols
UsablePositions(d, cols) ==
    {i \in 1..len(d) :
        \A k \in 1..Len(cols) :
            \E p \in 1..Len(d.columns) : d.columns[p] = cols[k] /\ ~d.data[i][p].isnull}

RECURSIVE Total(_, _)
Total(counts, i) == IF i > Len(counts) THEN 0 ELSE counts[i] + Total(counts, i + 1)

\* C22: the frame run_kmeans_clustering returns has one row, with one
\* Cluster label, for each row of the input without a null in the selected
\* columns, in order; every label is a whole number from 1 to k; the report
\* lists k sample counts that add up to the number of those rows.
C22_LabelsAndCounts ==
    Returned("run_kmeans_clustering") /\ ~ret.error =>
        LET res    == heap[ret.result_df]
            usable == UsablePositions(In, call.columns)
            c      == Len(res.columns)
        IN  /\ res.columns[c] = ColCluster
            /\ \A p \in 1..(c - 1) : res.columns[p] # ColCluster
            /\ len(res) = Cardinality(usable)
            /\ \A n \in 1..len(res) : res.index[n] = In.index[NthOf(usable, n)]
            /\ \A n \in 1..len(res) :
                  /\ ~res.data[n][c].isnull
                  /\ res.data[n][c].den = 1
                  /\ res.data[n][c].num \in 1..call.k
            /\ Len(ret.counts) = call.k
            /\ Total(ret.counts, 1) = Cardinality(usable)

\* three clusters asked for, a row with a null left out, label 3 given
C22_Witness ==
    /\ Returned("run_kmeans_clustering")
    /\ ~ret.error
    /\ call.k = 3
    /\ Cardinality(UsablePositions(In, call.columns)) < len(In)
    /\ \E n \in 1..len(heap[ret.result_df]) :
          heap[ret.result_df].data[n][Len(heap[ret.result_df].columns)] = Whole(3)

\* a cluster without any row is listed with the count 0
C22_WitnessEmptyCluster ==
    /\ Returned("run_kmeans_clustering")
    /\ ~ret.error
    /\ \E i \in 1..Len(ret.counts) : ret.counts[i] = 0

\* --------------------------------------------------------------- t-test
\* the positions of the rows of the k-th group of a report with a value
GroupRows(k) ==
    {i \in 1..len(In) :
        /\ Column(In, call.group_col)[i] = Outcome.groups[k]
        /\ ~Column(In, call.value_col)[i].isnull}

\* the sum of the whole numbers, and of their squares, at the rows S of the
\* value column
RECURSIVE SumAt(_, _)
SumAt(S, square) ==
    IF S = {} THEN 0
    ELSE LET i == CHOOSE x \in S : TRUE
             v == Column(In, call.value_col)[i].num
         IN  (IF square THEN v * v ELSE v) + SumAt(S \ {i}, square)

\* abs(d) > t/u for Cohen's d with the pooled standard deviation
\* sqrt(((n1-1) s1^2 + (n2-1) s2^2) / (n1+n2-2)), in whole numbers:
\* d^2 = G^2 (n1+n2-2) / (n1 n2 (n2 Q1 + n1 Q2)) with G = n2 sum1 - n1 sum2
\* and Qi = ni sumsq_i - sum_i^2; a zero divisor gives inf, or nan for G = 0
EffectAbove(t, u) ==
    LET n1 == Cardinality(GroupRows(1))
        n2 == Cardinality(GroupRows(2))
        G  == n2 * SumAt(GroupRows(1), FALSE) - n1 * SumAt(GroupRows(2), FALSE)
        Q1 == n1 * SumAt(GroupRows(1), TRUE)
                - SumAt(GroupRows(1), FALSE) * SumAt(GroupRows(1), FALSE)
        Q2 == n2 * SumAt(GroupRows(2), TRUE)
                - SumAt(GroupRows(2), FALSE) * SumAt(GroupRows(2), FALSE)
        W  == n2 * Q1 + n1 * Q2
    IN  IF W = 0 THEN G # 0
        ELSE u * u * G * G * (n1 + n2 - 2) > t * t * n1 * n2 * W

\* C24: for A = [10, 12, 11] and B = [20, 19, 21] independent_ttest reports
\* p < 0.05 and a significant difference, with either variant of the test,
\* and a large effect; in every report the effect is large, medium or small
\* as abs(d) is above 0.8, above 0.5 or not, d being the difference of the
\* means over the pooled standard deviation.
C24_LargeSignificantEffect ==
    Returned("independent_ttest") =>
        /\ In = TTestDataset /\ call.group_col = ColGrp =>
              /\ Outcome.kind = "report"
              /\ Outcome.n = <<3, 3>>
              /\ Outcome.mean = <<Whole(11), Whole(20)>>
              /\ Smaller(Outcome.p_val, Alpha)
              /\ Outcome.significant
              /\ Outcome.effect = "large"
        /\ Outcome.kind = "report" =>
              /\ Outcome.effect = "large" <=> EffectAbove(4, 5)
              /\ Outcome.effect = "medium" <=> ~EffectAbove(4, 5) /\ EffectAbove(1, 2)
              /\ Outcome.effect = "small" <=> ~EffectAbove(1, 2)

\* the report on A and B
C24_Witness ==
    /\ Returned("independent_ttest")
    /\ In = TTestDataset
    /\ Outcome.kind = "report"
    /\ Outcome.effect = "large"
    /\ Outcome.p_val = Num(1, 100)

\* reports of a medium and of a small effect without a significant difference
C24_WitnessMedium ==
    /\ Returned("independent_ttest")
    /\ Outcome.kind = "report"
    /\ Outcome.effect = "medium"
    /\ ~Outcome.significant

C24_WitnessSmall ==
    /\ Returned("independent_ttest")
    /\ Outcome.kind = "report"
    /\ Outcome.effect = "small"

\* ---------------------------------------------------------- correlation
\* what correlation_analysis returns with the two variables exchanged, each
\* variable keeping the p-value of its normality test and the coefficient
\* routine returning the same r and p
Exchanged ==
    IF Outcome.kind = "report"
    THEN correlation_analysis(In, call.var2_col, call.var1_col,
                              Outcome.norm[2].p, Outcome.norm[1].p,
                              [r |-> Outcome.r, p |-> Outcome.p_val])
    ELSE correlation_analysis(In, call.var2_col, call.var1_col, Alpha, Alpha,
                              [r |-> NaN, p |-> NaN])

\* C23: correlation_analysis(df, Y, X) ends as correlation_analysis(df, X, Y)
\* does: the same error, or a report on the same rows with the same
\* normality verdict for each variable, the same method, r, p, strength and
\* direction.
C23_Symmetric ==
    Returned("correlation_analysis") =>
        /\ Exchanged.kind = Outcome.kind
        /\ Outcome.kind = "error_sample" => Exchanged.n = Outcome.n
        /\ Outcome.kind = "error_type" =>
              Exchanged.types = <<Outcome.types[2], Outcome.types[1]>>
        /\ Outcome.kind = "report" =>
              /\ Exchanged.n = Outcome.n
              /\ Exchanged.sample = Outcome.sample
              /\ Exchanged.norm = <<Outcome.norm[2], Outcome.norm[1]>>
              /\ Exchanged.computed = Outcome.computed
              /\ Exchanged.method_name = Outcome.method_name
              /\ Exchanged.r = Outcome.r
              /\ Exchanged.p_val = Outcome.p_val
              /\ Exchanged.strength = Outcome.strength
              /\ Exchanged.direction = Outcome.direction
              /\ Exchanged.significant = Outcome.significant

\* a report where only the first variable is normal, on a sample that left
\* a row out
C23_Witness ==
    /\ Returned("correlation_analysis")
    /\ Outcome.kind = "report"
    /\ Outcome.norm[1].normal /\ ~Outcome.norm[2].normal
    /\ Outcome.n < len(In)
    /\ Outcome.method_name = "Spearman"
    /\ Outcome.direction = "negative"

\* ------------------------------------------------- the duplicate log line
\* the columns of the dataset the duplicate subset leaves out
OmittedColumns ==
    {p \in 1..Len(In.columns) : ~InSeq(In.columns[p], SubsetUsed)}

\* apply_cleaning dropped duplicate rows
DuplicatesDropped == DedupOn /\ Len(AfterDedup) < len(In)

\* C26 as stated: when apply_cleaning removes duplicate rows its first log
\* record gives the number of rows dropped, and names an ID-excluding subset
\* exactly when duplicate_subset omits a column of the dataset, 'all columns'
\* otherwise.
C26_AsStated ==
    (Returned("apply_cleaning") /\ DuplicatesDropped) =>
        /\ ret.logs # <<>>
        /\ ret.logs[1].kind = "drop_duplicates"
        /\ ret.logs[1].n = len(In) - Len(AfterDedup)
        /\ ret.logs[1].detail = IF OmittedColumns # {} THEN "ID columns excluded"
                                ELSE "all columns"

\* the record does give the number of rows dropped, and its basis is right
\* whenever duplicate_subset is absent or leaves a column out
C26_CountAndProperSubset ==
    (Returned("apply_cleaning") /\ DuplicatesDropped) =>
        /\ ret.logs # <<>>
        /\ ret.logs[1].kind = "drop_duplicates"
        /\ ret.logs[1].n = len(In) - Len(AfterDedup)
        /\ ("duplicate_subset" \notin DOMAIN Cfg \/ OmittedColumns # {}) =>
              ret.logs[1].detail = IF OmittedColumns # {} THEN "ID columns excluded"
                                   ELSE "all columns"

\* duplicates judged on every column through the duplicate_subset the
\* cleaning dialog passes, and logged as judged on an ID-excluding subset
C26_AllColumnsLoggedAsSubset ==
    ~ /\ Returned("apply_cleaning")
      /\ DuplicatesDropped
      /\ "duplicate_subset" \in DOMAIN Cfg
      /\ Cfg["duplicate_subset"] = check_quality(In).subset_cols
      /\ SubsetUsed = In.columns
      /\ ret.logs[1].detail = "ID columns excluded"

\* ------------------------------------------------------ the Tukey sample
\* the cell of row i in column col
CellAt(d, i, col) ==
    d.data[i][CHOOSE p \in 1..Len(d.columns) : d.columns[p] = col]

\* the observations of the omnibus test, in row order: the value and the
\* group label of each row that has both
OmnibusPairs ==
    LET S == UsablePositions(In, <<call.group_col, call.value_col>>)
    IN  [k \in 1..Cardinality(S) |->
            [value |-> CellAt(In, NthOf(S, k), call.value_col),
             label |-> CellAt(In, NthOf(S, k), call.group_col)]]

\* one_way_anova got as far as the Tukey comparison
TukeyCalled ==
    /\ Returned("one_way_anova")
    /\ \/ Outcome.kind = "report"
       \/ Outcome.kind = "raised" /\ Outcome.at = "pairwise_tukeyhsd"

\* C27 as stated: the Tukey comparison is run on the observations of the
\* omnibus test, every value next to the group label of its own row, the
\* rows with a null value or a null label left out of both.
C27_AsStated ==
    TukeyCalled =>
        /\ Outcome.kind = "report"
        /\ Len(Outcome.tukey.endog) = Len(OmnibusPairs)
        /\ Len(Outcome.tukey.groups) = Len(OmnibusPairs)
        /\ \A k \in 1..Len(OmnibusPairs) :
              /\ Outcome.tukey.endog[k] = OmnibusPairs[k].value
              /\ Outcome.tukey.groups[k] = OmnibusPairs[k].label

\* the rows with a null in exactly one of the two columns
HalfNullRows ==
    {i \in 1..len(In) :
        CellAt(In, i, call.group_col).isnull # CellAt(In, i, call.value_col).isnull}

\* the pairing does hold when no row has a null in only one of the columns
C27_AlignedWithoutHalfNulls ==
    (TukeyCalled /\ HalfNullRows = {}) =>
        /\ Outcome.kind = "report"
        /\ Len(Outcome.tukey.endog) = Len(OmnibusPairs)
        /\ \A k \in 1..Len(OmnibusPairs) :
              /\ Outcome.tukey.endog[k] = OmnibusPairs[k].value
              /\ Outcome.tukey.groups[k] = OmnibusPairs[k].label

\* a null label in one row and a null value in another: a report whose Tukey
\* sample pairs a value with the label of another row
C27_NoShiftedReport ==
    ~ /\ TukeyCalled
      /\ Outcome.kind = "report"
      /\ \E k \in 1..Len(OmnibusPairs) :
            Outcome.tukey.groups[k] # OmnibusPairs[k].label

\* a null value only: the Tukey call is given more labels than values
C27_NoRaise ==
    ~ /\ TukeyCalled
      /\ Outcome.kind = "raised"
      /\ Len(OmnibusPairs) < len(In)

\* ------------------------------------------------------ inspect, then clean
\* the subset_cols an inspection of the dataset passed to the call reports
InspectedSubset == check_quality(In).subset_cols

\* the config asks for duplicate removal on the subset the inspection reported
DialogDedup ==
    /\ DedupOn
    /\ "duplicate_subset" \in DOMAIN Cfg
    /\ Cfg["duplicate_subset"] = InspectedSubset

\* missing values are left alone or their rows dropped
NoFill == ~MissingOn \/ Method = "drop"

\* C28 as stated: after apply_cleaning with remove_duplicates and the
\* inspected subset_cols, whatever the missing-value setting, check_quality
\* on the cleaned dataset reports no duplicates.
C28_AsStated ==
    (Returned("apply_cleaning") /\ DialogDedup) =>
        check_quality(Out).duplicates = 0

\* C28: after apply_cleaning with remove_duplicates and the inspected
\* subset_cols, missing values left alone or their rows dropped, no two rows
\* of the cleaned dataset agree on every column of that subset_cols; an
\* inspection of the cleaned dataset that selects the same subset_cols
\* reports no duplicates.
C28_NoDuplicatesOnInspectedSubset ==
    (Returned("apply_cleaning") /\ DialogDedup /\ NoFill) =>
        /\ \A i, j \in 1..len(Out) :
              AgreeOn(Out, InspectedSubset, i, j) => i = j
        /\ check_quality(Out).subset_cols = InspectedSubset =>
              check_quality(Out).duplicates = 0

\* duplicates were dropped, a row with a null too, and rows are left
C28_Witness ==
    /\ Returned("apply_cleaning")
    /\ DialogDedup
    /\ MissingOn /\ Method = "drop"
    /\ Len(AfterDedup) < len(In)
    /\ len(Out) < Len(AfterDedup)
    /\ len(Out) >= 2

\* an ID column that holds no value twice once the duplicates are gone: the
\* second inspection leaves it out and finds duplicates on the other columns
C28_WitnessSubsetChanges ==
    /\ Returned("apply_cleaning")
    /\ DialogDedup
    /\ ~MissingOn
    /\ check_quality(Out).subset_cols # InspectedSubset
    /\ check_quality(Out).duplicates > 0

\* a fill that makes two rows equal on the inspected subset_cols
C28_WitnessFillMakesDuplicates ==
    /\ Returned("apply_cleaning")
    /\ DialogDedup
    /\ MissingOn /\ Method = "mean"
    /\ check_quality(Out).subset_cols = InspectedSubset
    /\ check_quality(Out).duplicates > 0

\* ------------------------------------------------- the main window's rows
\* the dataset self.df refers to, the dataset in the data view and the
\* background of its rows
Current    == heap[df]
Displayed  == window.data_view.shown
Background == window.data_view.background

\* the handler that just returned, and how it ended
Handled(op, outcome) ==
    pc = "handled" /\ call.op = op /\ call.outcome = outcome

\* row i of d agrees with another row on the columns an inspection of d checks
InDuplicateGroup(d, i) ==
    \E j \in 1..len(d) : j # i /\ AgreeOn(d, check_quality(d).subset_cols, i, j)

\* the rows an inspection of d flags, by their position from 0
FlaggedRows(d) ==
    {i - 1 : i \in {k \in 1..len(d) : InDuplicateGroup(d, k) \/ ~NullFree(d.data[k])}}

\* C25: the data view shows the dataset self.df refers to; a coloured row is
\* a row an inspection of that dataset flags, red for a duplicate and orange
\* for a row with a missing value only; every flagged row is coloured while
\* the cleaning dialog is open, and no row is coloured once cleaning has
\* replaced the dataset or the dialog was cancelled.
C25_HighlightsOfDisplayedDataset ==
    IF df = None THEN DOMAIN Background = {}
    ELSE /\ Displayed = Current
         /\ \A row \in DOMAIN Background :
               /\ row \in FlaggedRows(Current)
               /\ Background[row] = IF InDuplicateGroup(Current, row + 1)
                                    THEN "red" ELSE "orange"
         /\ pc = "cleaning_dialog" => DOMAIN Background = FlaggedRows(Current)
         /\ (\/ Handled("show_cleaning_dialog", "cleaned")
             \/ Handled("show_cleaning_dialog", "cancelled")
             \/ Handled("load_file", "loaded"))
               => DOMAIN Background = {}

\* cleaning dropped rows of a dataset that had red and orange rows
C25_Witness ==
    /\ Handled("show_cleaning_dialog", "cleaned")
    /\ call.report.duplicates > 0
    /\ call.report.missing_count > 0
    /\ len(Current) < call.report.n_rows
    /\ len(Current) > 0
    /\ DOMAIN Background = {}

\* the dialog open over a red and an orange row
C25_WitnessDialogOpen ==
    /\ pc = "cleaning_dialog"
    /\ \E r1, r2 \in DOMAIN Background :
          Background[r1] = "red" /\ Background[r2] = "orange"

\* apply_cleaning raised: the rows stay coloured, on the dataset inspected
C25_WitnessRaised ==
    /\ Handled("show_cleaning_dialog", "raised")
    /\ DOMAIN Background # {}

\* --------------------------------------------------------- the Pro lock
ProHandlers ==
    {"show_cleaning_dialog", "show_anova_dialog", "show_regression_dialog",
     "show_pca_dialog", "show_kmeans_dialog", "export_report"}

ProEngineCalls ==
    {"check_quality", "apply_cleaning", "one_way_anova", "simple_linear_regression",
     "run_pca_analysis", "run_kmeans_clustering", "write"}

\* C29: is_activated never changes; in a session without an activated
\* licence every Pro handler returns at check_pro_feature, no step makes the
\* engine call of a Pro handler, and the dataset self.df refers to changes
\* in load_file only.
C29_ProLocked ==
    [][ /\ window'.is_activated = window.is_activated
        /\ ~window.is_activated =>
              /\ ret'.op \notin ProEngineCalls
              /\ (pc' = "handled" /\ call'.op \in ProHandlers) =>
                     call'.outcome = "pro_only"
              /\ (df' # df \/ heap' # heap) => call'.op = "load_file" ]_vars

\* a Pro button clicked in an unactivated session with a dataset loaded
C29_Witness ==
    /\ ~window.is_activated
    /\ df # None
    /\ pc = "handled"
    /\ call.op \in ProHandlers
    /\ call.outcome = "pro_only"

\* the activation dialog accepted with a dataset loaded
C29_WitnessActivationAccepted ==
    /\ Handled("show_activation_dialog", "accepted")
    /\ df # None
    /\ ~window.is_activated

C30_WitnessFirstLoadFails ==
    /\ Handled("load_file", "raised")
    /\ df = None
    /\ window.enabled = {}

\* a load that failed after a dataset was loaded
C30_WitnessLaterLoadFails ==
    /\ Handled("load_file", "raised")
    /\ df # None
    /\ window.enabled = SidebarButtons

====
